---- MODULE Spec2Model ----
(***************************************************************************)
(* Verification model of the janus runtime's cross-thread primitives.      *)
(*                                                                         *)
(* Part 1: the Mirror<T> cell of src/src/sync/mod.rs.  Every handle of one *)
(* cell runs on its own thread; each access to the shared flag, counter or *)
(* canonical storage made by publish, sync, sync_noblock, sync_timeout,    *)
(* clone and drop is one step.  The value type T is two machine words      *)
(* wide, so copy_nonoverlapping takes two steps and a mixture of two       *)
(* values is a state the model can show.                                   *)
(*                                                                         *)
(* Part 2: the input channel of src/src/input/stream.rs: the packet codec, *)
(* the packed head and tail indices, the folds, and the producer and       *)
(* consumer operations of InputStream, each on its own thread.             *)
(*                                                                         *)
(* Part 3: the fixed-timestep DeltaAccumulator of src/src/context.rs.      *)
(*                                                                         *)
(* Each specification exercises one part; the variables of the other parts *)
(* keep the value Unused throughout it.                                    *)
(***************************************************************************)
EXTENDS Integers, Naturals, Sequences, FiniteSets, TLC

\* Number of handles of the cell (the handle from Mirror::new plus its clones).
NumHandles == 2
\* Number of publish calls made on the cell, over all handles.
MaxPublish == 2

Handles == 1..NumHandles

VARIABLES
    pc,          \* pc[h]: where handle h's thread stands in its current call
    local,       \* Mirror::local of each handle, a pair of words
    version,     \* Mirror::version of each handle
    latest,      \* the shared AtomicUsize behind Mirror::latest
    rw_signal,   \* the shared AtomicBool behind Mirror::rw_signal
    canonical,   \* the heap value behind *Mirror::ptr, a pair of words
    lv,          \* the stack variable latest_version of the running sync call
    value,       \* the argument of the running publish call (its ordinal)
    ret,         \* the result the call that has just finished hands back
    npub,        \* how many publish calls have been made so far
    writers,     \* the handles the application publishes through
    strong,      \* Arc::strong_count of Mirror::ptr
    freed,       \* how many times Box::from_raw freed the canonical storage
    \* Part 2, InputStream
    head,        \* InputStream::head, the packed 16-bit index word of the writer
    tail,        \* InputStream::tail, the packed 16-bit index word of the reader
    stream,      \* InputStream::stream[section][fold], each fold a 64-bit word
    ppc,         \* where the producer thread stands
    pslot,       \* (local, section) the running push_front got from advance_local
    cpc,         \* where the consumer thread stands
    iter,        \* the section IterInputStream::stream refers to
    sent,        \* history: the push_front calls made, in order, each with its
                 \* packet, the (local, section) it got and its place in its frame
    got,         \* history: the packets handed to the consumer, in order
    dstart,      \* history: deliveries and completed pushes when the drain began
    inframe,     \* history: push_front calls since the last frame_front
    lag,         \* history: frame_front calls not yet followed by a frame_back
    \* Part 2, packet codec and fold accessors taken alone
    packet,      \* the DeltaPacket given to as_bits
    bits,        \* the 32-bit word given to from_bits
    fold,        \* the FoldBits word given to read_left / read_right
    decoded,     \* what from_bits, read_left or read_right returned
    kpc,         \* which codec function was applied last
    \* Part 3, DeltaAccumulator
    step,        \* DeltaAccumulator::step
    accumulated, \* DeltaAccumulator::accumulated
    aret,        \* what the last accumulator call returned
    elapsed,     \* history: time added by accum() since the step was last set
    ticks,       \* history: true results of overstep() since the step was last set
    restepped,   \* history: set_step was called after new
    \* Part 4, Context
    init,         \* Context::init, the one-shot set-up routine (Option)
    state_handle, \* Context::state_handle
    logic_thread, \* Context::logic_thread (Option<JoinHandle>)
    gl_display,   \* Context::gl_display
    display,      \* Context::display (Option<DisplayHandle>)
    exit,         \* event_loop.exit() has been requested
    mpc,          \* where the main (event loop) thread stands
    lpc,          \* where the simulation thread stands in its loop
    delta,        \* the simulation thread's DeltaAccumulator
    loop_iter,    \* the simulation thread's local iter
    state_step,   \* what state.step_duration() returns
    handle_log,   \* history: the values state_handle has taken, in order
    init_log,     \* history: the results of the init.init calls, in order
    spawned,      \* history: how many threads thread::spawn has started
    resumes,      \* history: how many times resumed() was delivered
    drawn,        \* history: how many times the renderer has drawn
    hooks,        \* history: new_frame calls of the running loop iteration
    updates,      \* history: update calls since the last new_frame
    trues,        \* history: true results of overstep since the last new_frame
    set_steps,    \* history: set_step calls of the running loop iteration
    keyboard,     \* Keys::keyboard, the counter of every keyboard key
    mouse,        \* Keys::mouse, the counter of every mouse button
    kstatus,      \* "running", or "panicked" once a table was indexed outside
    last_op,      \* history: the last call on Keys and its packet
    upped,        \* history: entries given an up packet since the last update
    frames,       \* history: how many update calls were made
    presses       \* history: how many press_change calls were made

mirrorVars == <<pc, local, version, latest, rw_signal, canonical, lv, value, ret,
                npub, writers, strong, freed>>
inputVars == <<head, tail, stream, ppc, pslot, cpc, iter, sent, got, dstart,
               inframe, lag>>
codecVars == <<packet, bits, fold, decoded, kpc>>
accumVars == <<step, accumulated, aret, elapsed, ticks, restepped>>
contextVars == <<init, state_handle, logic_thread, gl_display, display, exit,
                 mpc, lpc, delta, loop_iter, state_step, handle_log, init_log,
                 spawned, resumes, drawn, hooks, updates, trues, set_steps>>
keysVars == <<keyboard, mouse, kstatus, last_op, upped, frames, presses>>
nonMirrorVars == <<inputVars, codecVars, accumVars, contextVars, keysVars>>
nonInputVars == <<mirrorVars, codecVars, accumVars, contextVars, keysVars>>
nonCodecVars == <<mirrorVars, inputVars, accumVars, contextVars, keysVars>>
nonAccumVars == <<mirrorVars, inputVars, codecVars, contextVars, keysVars>>
nonContextVars == <<mirrorVars, inputVars, codecVars, accumVars, keysVars>>
nonKeysVars == <<mirrorVars, inputVars, codecVars, accumVars, contextVars>>

vars == <<mirrorVars, inputVars, codecVars, accumVars, contextVars, keysVars>>

\* The value of every variable of a part that a specification does not exercise.
Unused == "unused"

MirrorUnused ==
    /\ pc = Unused /\ local = Unused /\ version = Unused /\ latest = Unused
    /\ rw_signal = Unused /\ canonical = Unused /\ lv = Unused
    /\ value = Unused /\ ret = Unused /\ npub = Unused /\ writers = Unused
    /\ strong = Unused /\ freed = Unused

InputUnused ==
    /\ head = Unused /\ tail = Unused /\ stream = Unused /\ ppc = Unused
    /\ pslot = Unused /\ cpc = Unused /\ iter = Unused /\ sent = Unused
    /\ got = Unused /\ dstart = Unused /\ inframe = Unused /\ lag = Unused

CodecUnused ==
    /\ packet = Unused /\ bits = Unused /\ fold = Unused /\ decoded = Unused
    /\ kpc = Unused

AccumUnused ==
    /\ step = Unused /\ accumulated = Unused /\ aret = Unused
    /\ elapsed = Unused /\ ticks = Unused /\ restepped = Unused

ContextUnused ==
    /\ init = Unused /\ state_handle = Unused /\ logic_thread = Unused
    /\ gl_display = Unused /\ display = Unused /\ exit = Unused
    /\ mpc = Unused /\ lpc = Unused /\ delta = Unused /\ loop_iter = Unused
    /\ state_step = Unused /\ handle_log = Unused /\ init_log = Unused
    /\ spawned = Unused /\ resumes = Unused /\ drawn = Unused
    /\ hooks = Unused /\ updates = Unused /\ trues = Unused
    /\ set_steps = Unused

KeysUnused ==
    /\ keyboard = Unused /\ mouse = Unused /\ kstatus = Unused
    /\ last_op = Unused /\ upped = Unused /\ frames = Unused
    /\ presses = Unused

\* The payload of the k-th publish call: both words carry k, so that every
\* published value is distinct and a torn copy has two different words.
\* Val(0) is the value given to Mirror::new.
Val(k) == <<k, k>>

\* Mirror::new: local is a clone of the value, the canonical box holds the value,
\* version and latest are 0, the flag is clear.  Slot 1 is the handle returned by
\* new; the other slots are clones not made yet.  The application publishes
\* through the first handle alone (single writer) or through every handle.
MirrorInit ==
    /\ pc = [h \in Handles |-> IF h = 1 THEN "idle" ELSE "unborn"]
    /\ local = [h \in Handles |-> Val(0)]
    /\ version = [h \in Handles |-> 0]
    /\ latest = 0
    /\ rw_signal = FALSE
    /\ canonical = Val(0)
    /\ lv = [h \in Handles |-> 0]
    /\ value = [h \in Handles |-> 0]
    /\ ret = [h \in Handles |-> "none"]
    /\ npub = 0
    /\ writers \in {{1}, Handles}
    /\ strong = 1
    /\ freed = 0
    /\ InputUnused /\ CodecUnused /\ AccumUnused /\ ContextUnused
    /\ KeysUnused

\* The cell after Mirror::new and one clone() per remaining slot, before any other
\* call: every handle holds the initial value at version 0.
ClonedInit ==
    /\ pc = [h \in Handles |-> "idle"]
    /\ local = [h \in Handles |-> Val(0)]
    /\ version = [h \in Handles |-> 0]
    /\ latest = 0
    /\ rw_signal = FALSE
    /\ canonical = Val(0)
    /\ lv = [h \in Handles |-> 0]
    /\ value = [h \in Handles |-> 0]
    /\ ret = [h \in Handles |-> "none"]
    /\ npub = 0
    /\ writers \in {{1}, Handles}
    /\ strong = NumHandles
    /\ freed = 0
    /\ InputUnused /\ CodecUnused /\ AccumUnused /\ ContextUnused
    /\ KeysUnused

\* #[derive(Clone)]: a live handle that is between calls is cloned into the next
\* free slot; local and version are copied and the Arc count goes up by one.
Clone(h) ==
    /\ pc[h] = "idle"
    /\ \E g \in Handles :
         /\ pc[g] = "unborn"
         /\ \A k \in Handles : pc[k] = "unborn" => g <= k
         /\ pc' = [pc EXCEPT ![g] = "idle"]
         /\ local' = [local EXCEPT ![g] = local[h]]
         /\ version' = [version EXCEPT ![g] = version[h]]
    /\ strong' = strong + 1
    /\ UNCHANGED <<latest, rw_signal, canonical, lv, value, ret, npub, writers,
                   freed>>
    /\ UNCHANGED nonMirrorVars

----------------------------------------------------------------------------
\* publish(value)

\* The call: the argument is bound.
PublishCall(h) ==
    /\ pc[h] = "idle"
    /\ h \in writers
    /\ npub < MaxPublish
    /\ npub' = npub + 1
    /\ value' = [value EXCEPT ![h] = npub + 1]
    /\ pc' = [pc EXCEPT ![h] = "P_acq"]
    /\ UNCHANGED <<local, version, latest, rw_signal, canonical, lv, ret,
                   writers, strong, freed>>
    /\ UNCHANGED nonMirrorVars

\* Mutant of PublishAcquire: the flag is set with a plain store, without waiting
\* for it to be clear.
PublishAcquireNoCas(h) ==
    /\ pc[h] = "P_acq"
    /\ rw_signal' = TRUE
    /\ pc' = [pc EXCEPT ![h] = "P_w1"]
    /\ UNCHANGED <<local, version, latest, canonical, lv, value, ret, npub,
                   writers, strong, freed>>
    /\ UNCHANGED nonMirrorVars

\* compare_exchange(false, true) succeeds; a failed attempt yields and retries,
\* which changes nothing.
PublishAcquire(h) ==
    /\ pc[h] = "P_acq"
    /\ rw_signal = FALSE
    /\ rw_signal' = TRUE
    /\ pc' = [pc EXCEPT ![h] = "P_w1"]
    /\ UNCHANGED <<local, version, latest, canonical, lv, value, ret, npub,
                   writers, strong, freed>>
    /\ UNCHANGED nonMirrorVars

\* copy_nonoverlapping(&value, *self.ptr, 1), first word.
PublishWrite1(h) ==
    /\ pc[h] = "P_w1"
    /\ canonical' = [canonical EXCEPT ![1] = Val(value[h])[1]]
    /\ pc' = [pc EXCEPT ![h] = "P_w2"]
    /\ UNCHANGED <<local, version, latest, rw_signal, lv, value, ret, npub,
                   writers, strong, freed>>
    /\ UNCHANGED nonMirrorVars

\* copy_nonoverlapping(&value, *self.ptr, 1), second word.
PublishWrite2(h) ==
    /\ pc[h] = "P_w2"
    /\ canonical' = [canonical EXCEPT ![2] = Val(value[h])[2]]
    /\ pc' = [pc EXCEPT ![h] = "P_rel"]
    /\ UNCHANGED <<local, version, latest, rw_signal, lv, value, ret, npub,
                   writers, strong, freed>>
    /\ UNCHANGED nonMirrorVars

\* self.rw_signal.store(false, Release)
PublishRelease(h) ==
    /\ pc[h] = "P_rel"
    /\ rw_signal' = FALSE
    /\ pc' = [pc EXCEPT ![h] = "P_inc"]
    /\ UNCHANGED <<local, version, latest, canonical, lv, value, ret, npub,
                   writers, strong, freed>>
    /\ UNCHANGED nonMirrorVars

\* Mutant of PublishBump: the "+ 1" is forgotten
\* (self.version = self.latest.fetch_add(1)).
PublishBumpNoPlusOne(h) ==
    /\ pc[h] = "P_inc"
    /\ latest' = latest + 1
    /\ version' = [version EXCEPT ![h] = latest]
    /\ local' = [local EXCEPT ![h] = Val(value[h])]
    /\ ret' = [ret EXCEPT ![h] = "unit"]
    /\ pc' = [pc EXCEPT ![h] = "P_ret"]
    /\ UNCHANGED <<rw_signal, canonical, lv, value, npub, writers, strong,
                   freed>>
    /\ UNCHANGED nonMirrorVars

\* self.version = self.latest.fetch_add(1) + 1; self.local = value; the call is
\* over.
PublishBump(h) ==
    /\ pc[h] = "P_inc"
    /\ latest' = latest + 1
    /\ version' = [version EXCEPT ![h] = latest + 1]
    /\ local' = [local EXCEPT ![h] = Val(value[h])]
    /\ ret' = [ret EXCEPT ![h] = "unit"]
    /\ pc' = [pc EXCEPT ![h] = "P_ret"]
    /\ UNCHANGED <<rw_signal, canonical, lv, value, npub, writers, strong,
                   freed>>
    /\ UNCHANGED nonMirrorVars

----------------------------------------------------------------------------
\* sync()

\* Mutant of SyncCall: the staleness test is off by one
\* (self.version + 1 < latest_version).
SyncCallOffByOne(h) ==
    /\ pc[h] = "idle"
    /\ lv' = [lv EXCEPT ![h] = latest]
    /\ IF version[h] + 1 < latest
         THEN /\ pc' = [pc EXCEPT ![h] = "S_acq"]
              /\ ret' = ret
         ELSE /\ pc' = [pc EXCEPT ![h] = "S_ret"]
              /\ ret' = [ret EXCEPT ![h] = "Ok"]
    /\ UNCHANGED <<local, version, latest, rw_signal, canonical, value, npub,
                   writers, strong, freed>>
    /\ UNCHANGED nonMirrorVars

\* let latest_version = self.latest.load(Acquire);
\* if self.version < latest_version { ... }, otherwise Ok(()) at once.
SyncCall(h) ==
    /\ pc[h] = "idle"
    /\ lv' = [lv EXCEPT ![h] = latest]
    /\ IF version[h] < latest
         THEN /\ pc' = [pc EXCEPT ![h] = "S_acq"]
              /\ ret' = ret
         ELSE /\ pc' = [pc EXCEPT ![h] = "S_ret"]
              /\ ret' = [ret EXCEPT ![h] = "Ok"]
    /\ UNCHANGED <<local, version, latest, rw_signal, canonical, value, npub,
                   writers, strong, freed>>
    /\ UNCHANGED nonMirrorVars

\* Mutant of SyncAcquire: the flag is set with a plain store, without waiting for
\* it to be clear.
SyncAcquireNoCas(h) ==
    /\ pc[h] = "S_acq"
    /\ rw_signal' = TRUE
    /\ pc' = [pc EXCEPT ![h] = "S_r1"]
    /\ UNCHANGED <<local, version, latest, canonical, lv, value, ret, npub,
                   writers, strong, freed>>
    /\ UNCHANGED nonMirrorVars

\* compare_exchange(false, true) succeeds; a failed attempt yields and retries,
\* which changes nothing.
SyncAcquire(h) ==
    /\ pc[h] = "S_acq"
    /\ rw_signal = FALSE
    /\ rw_signal' = TRUE
    /\ pc' = [pc EXCEPT ![h] = "S_r1"]
    /\ UNCHANGED <<local, version, latest, canonical, lv, value, ret, npub,
                   writers, strong, freed>>
    /\ UNCHANGED nonMirrorVars

\* copy_nonoverlapping(*self.ptr, &mut self.local, 1), first word.
SyncRead1(h) ==
    /\ pc[h] = "S_r1"
    /\ local' = [local EXCEPT ![h][1] = canonical[1]]
    /\ pc' = [pc EXCEPT ![h] = "S_r2"]
    /\ UNCHANGED <<version, latest, rw_signal, canonical, lv, value, ret,
                   npub, writers, strong, freed>>
    /\ UNCHANGED nonMirrorVars

\* Mutant of SyncRead2: the copy is one word short.
SyncRead2Skip(h) ==
    /\ pc[h] = "S_r2"
    /\ pc' = [pc EXCEPT ![h] = "S_rel"]
    /\ UNCHANGED <<local, version, latest, rw_signal, canonical, lv, value, ret,
                   npub, writers, strong, freed>>
    /\ UNCHANGED nonMirrorVars

\* copy_nonoverlapping(*self.ptr, &mut self.local, 1), second word.
SyncRead2(h) ==
    /\ pc[h] = "S_r2"
    /\ local' = [local EXCEPT ![h][2] = canonical[2]]
    /\ pc' = [pc EXCEPT ![h] = "S_rel"]
    /\ UNCHANGED <<version, latest, rw_signal, canonical, lv, value, ret,
                   npub, writers, strong, freed>>
    /\ UNCHANGED nonMirrorVars

\* Mutant of SyncRelease: the flag is never cleared.
SyncReleaseKeepsFlag(h) ==
    /\ pc[h] = "S_rel"
    /\ version' = [version EXCEPT ![h] = lv[h]]
    /\ ret' = [ret EXCEPT ![h] = "Ok"]
    /\ pc' = [pc EXCEPT ![h] = "S_ret"]
    /\ UNCHANGED <<local, latest, rw_signal, canonical, lv, value, npub,
                   writers, strong, freed>>
    /\ UNCHANGED nonMirrorVars

\* Mutant of SyncRelease: the version recorded is latest as it is now, not as
\* the call loaded it (self.version = self.latest.load(Acquire)).
SyncReleaseRecordsCurrent(h) ==
    /\ pc[h] = "S_rel"
    /\ rw_signal' = FALSE
    /\ version' = [version EXCEPT ![h] = latest]
    /\ ret' = [ret EXCEPT ![h] = "Ok"]
    /\ pc' = [pc EXCEPT ![h] = "S_ret"]
    /\ UNCHANGED <<local, latest, canonical, lv, value, npub, writers, strong,
                   freed>>
    /\ UNCHANGED nonMirrorVars

\* Mutant of SyncRelease: the "+ 1" of publish is copied into sync
\* (self.version = latest_version + 1).
SyncReleaseOffByOne(h) ==
    /\ pc[h] = "S_rel"
    /\ rw_signal' = FALSE
    /\ version' = [version EXCEPT ![h] = lv[h] + 1]
    /\ ret' = [ret EXCEPT ![h] = "Ok"]
    /\ pc' = [pc EXCEPT ![h] = "S_ret"]
    /\ UNCHANGED <<local, latest, canonical, lv, value, npub, writers, strong,
                   freed>>
    /\ UNCHANGED nonMirrorVars

\* self.rw_signal.store(false, Release); self.version = latest_version; Ok(())
SyncRelease(h) ==
    /\ pc[h] = "S_rel"
    /\ rw_signal' = FALSE
    /\ version' = [version EXCEPT ![h] = lv[h]]
    /\ ret' = [ret EXCEPT ![h] = "Ok"]
    /\ pc' = [pc EXCEPT ![h] = "S_ret"]
    /\ UNCHANGED <<local, latest, canonical, lv, value, npub, writers,
                   strong, freed>>
    /\ UNCHANGED nonMirrorVars

----------------------------------------------------------------------------
\* sync_noblock()

\* let latest_version = self.latest.load(Acquire);
\* if self.version < latest_version { ... }, otherwise Ok(()) at once.
NoblockCall(h) ==
    /\ pc[h] = "idle"
    /\ lv' = [lv EXCEPT ![h] = latest]
    /\ IF version[h] < latest
         THEN /\ pc' = [pc EXCEPT ![h] = "N_acq"]
              /\ ret' = ret
         ELSE /\ pc' = [pc EXCEPT ![h] = "N_ret"]
              /\ ret' = [ret EXCEPT ![h] = "Ok"]
    /\ UNCHANGED <<local, version, latest, rw_signal, canonical, value, npub,
                   writers, strong, freed>>
    /\ UNCHANGED nonMirrorVars

\* Mutant of NoblockAcquire: the flag is set with a plain store, whatever it holds.
NoblockAcquireNoCas(h) ==
    /\ pc[h] = "N_acq"
    /\ rw_signal' = TRUE
    /\ pc' = [pc EXCEPT ![h] = "N_r1"]
    /\ UNCHANGED <<local, version, latest, canonical, lv, value, ret, npub,
                   writers, strong, freed>>
    /\ UNCHANGED nonMirrorVars

\* compare_exchange(false, true) succeeds.
NoblockAcquire(h) ==
    /\ pc[h] = "N_acq"
    /\ rw_signal = FALSE
    /\ rw_signal' = TRUE
    /\ pc' = [pc EXCEPT ![h] = "N_r1"]
    /\ UNCHANGED <<local, version, latest, canonical, lv, value, ret, npub,
                   writers, strong, freed>>
    /\ UNCHANGED nonMirrorVars

\* compare_exchange fails: return Err(SyncError::Locked).
NoblockLocked(h) ==
    /\ pc[h] = "N_acq"
    /\ rw_signal = TRUE
    /\ ret' = [ret EXCEPT ![h] = "Locked"]
    /\ pc' = [pc EXCEPT ![h] = "N_ret"]
    /\ UNCHANGED <<local, version, latest, rw_signal, canonical, lv, value,
                   npub, writers, strong, freed>>
    /\ UNCHANGED nonMirrorVars

\* copy_nonoverlapping(*self.ptr, &mut self.local, 1), first word.
NoblockRead1(h) ==
    /\ pc[h] = "N_r1"
    /\ local' = [local EXCEPT ![h][1] = canonical[1]]
    /\ pc' = [pc EXCEPT ![h] = "N_r2"]
    /\ UNCHANGED <<version, latest, rw_signal, canonical, lv, value, ret,
                   npub, writers, strong, freed>>
    /\ UNCHANGED nonMirrorVars

\* copy_nonoverlapping(*self.ptr, &mut self.local, 1), second word.
NoblockRead2(h) ==
    /\ pc[h] = "N_r2"
    /\ local' = [local EXCEPT ![h][2] = canonical[2]]
    /\ pc' = [pc EXCEPT ![h] = "N_rel"]
    /\ UNCHANGED <<version, latest, rw_signal, canonical, lv, value, ret,
                   npub, writers, strong, freed>>
    /\ UNCHANGED nonMirrorVars

\* self.rw_signal.store(false, Release); self.version = latest_version; Ok(())
NoblockRelease(h) ==
    /\ pc[h] = "N_rel"
    /\ rw_signal' = FALSE
    /\ version' = [version EXCEPT ![h] = lv[h]]
    /\ ret' = [ret EXCEPT ![h] = "Ok"]
    /\ pc' = [pc EXCEPT ![h] = "N_ret"]
    /\ UNCHANGED <<local, latest, canonical, lv, value, npub, writers,
                   strong, freed>>
    /\ UNCHANGED nonMirrorVars

----------------------------------------------------------------------------
\* sync_timeout(timeout): the clock may pass the deadline at any failed attempt

\* let latest_version = self.latest.load(Acquire);
\* if self.version < latest_version { ... }, otherwise Ok(()) at once.
TimeoutCall(h) ==
    /\ pc[h] = "idle"
    /\ lv' = [lv EXCEPT ![h] = latest]
    /\ IF version[h] < latest
         THEN /\ pc' = [pc EXCEPT ![h] = "T_acq"]
              /\ ret' = ret
         ELSE /\ pc' = [pc EXCEPT ![h] = "T_ret"]
              /\ ret' = [ret EXCEPT ![h] = "Ok"]
    /\ UNCHANGED <<local, version, latest, rw_signal, canonical, value, npub,
                   writers, strong, freed>>
    /\ UNCHANGED nonMirrorVars

\* compare_exchange(false, true) succeeds; a failed attempt before the deadline
\* yields and retries, which changes nothing.
TimeoutAcquire(h) ==
    /\ pc[h] = "T_acq"
    /\ rw_signal = FALSE
    /\ rw_signal' = TRUE
    /\ pc' = [pc EXCEPT ![h] = "T_r1"]
    /\ UNCHANGED <<local, version, latest, canonical, lv, value, ret, npub,
                   writers, strong, freed>>
    /\ UNCHANGED nonMirrorVars

\* Mutant of TimeoutExpire: the call gives up and clears the flag on its way out.
TimeoutExpireClearsFlag(h) ==
    /\ pc[h] = "T_acq"
    /\ rw_signal = TRUE
    /\ rw_signal' = FALSE
    /\ ret' = [ret EXCEPT ![h] = "TimeoutExceeded"]
    /\ pc' = [pc EXCEPT ![h] = "T_ret"]
    /\ UNCHANGED <<local, version, latest, canonical, lv, value,
                   npub, writers, strong, freed>>
    /\ UNCHANGED nonMirrorVars

\* compare_exchange fails and dt > timeout: return Err(TimeoutExceeded { .. }).
TimeoutExpire(h) ==
    /\ pc[h] = "T_acq"
    /\ rw_signal = TRUE
    /\ ret' = [ret EXCEPT ![h] = "TimeoutExceeded"]
    /\ pc' = [pc EXCEPT ![h] = "T_ret"]
    /\ UNCHANGED <<local, version, latest, rw_signal, canonical, lv, value,
                   npub, writers, strong, freed>>
    /\ UNCHANGED nonMirrorVars

\* copy_nonoverlapping(*self.ptr, &mut self.local, 1), first word.
TimeoutRead1(h) ==
    /\ pc[h] = "T_r1"
    /\ local' = [local EXCEPT ![h][1] = canonical[1]]
    /\ pc' = [pc EXCEPT ![h] = "T_r2"]
    /\ UNCHANGED <<version, latest, rw_signal, canonical, lv, value, ret,
                   npub, writers, strong, freed>>
    /\ UNCHANGED nonMirrorVars

\* copy_nonoverlapping(*self.ptr, &mut self.local, 1), second word.
TimeoutRead2(h) ==
    /\ pc[h] = "T_r2"
    /\ local' = [local EXCEPT ![h][2] = canonical[2]]
    /\ pc' = [pc EXCEPT ![h] = "T_rel"]
    /\ UNCHANGED <<version, latest, rw_signal, canonical, lv, value, ret,
                   npub, writers, strong, freed>>
    /\ UNCHANGED nonMirrorVars

\* self.rw_signal.store(false, Release); self.version = latest_version; Ok(())
TimeoutRelease(h) ==
    /\ pc[h] = "T_rel"
    /\ rw_signal' = FALSE
    /\ version' = [version EXCEPT ![h] = lv[h]]
    /\ ret' = [ret EXCEPT ![h] = "Ok"]
    /\ pc' = [pc EXCEPT ![h] = "T_ret"]
    /\ UNCHANGED <<local, latest, canonical, lv, value, npub, writers,
                   strong, freed>>
    /\ UNCHANGED nonMirrorVars

----------------------------------------------------------------------------
\* The call is over: the caller takes the result and the call's stack frame
\* (latest_version, value) is gone.
Return(h) ==
    /\ pc[h] \in {"P_ret", "S_ret", "N_ret", "T_ret"}
    /\ pc' = [pc EXCEPT ![h] = "idle"]
    /\ ret' = [ret EXCEPT ![h] = "none"]
    /\ lv' = [lv EXCEPT ![h] = 0]
    /\ value' = [value EXCEPT ![h] = 0]
    /\ UNCHANGED <<local, version, latest, rw_signal, canonical, npub,
                   writers, strong, freed>>
    /\ UNCHANGED nonMirrorVars

----------------------------------------------------------------------------
\* impl Drop for Mirror

\* drop(): if Arc::strong_count(&self.ptr) == 1 { ... }
DropCheck(h) ==
    /\ pc[h] = "idle"
    /\ pc' = [pc EXCEPT ![h] = IF strong = 1 THEN "D_free" ELSE "D_arc"]
    /\ UNCHANGED <<local, version, latest, rw_signal, canonical, lv, value,
                   ret, npub, writers, strong, freed>>
    /\ UNCHANGED nonMirrorVars

\* let _v = unsafe { Box::from_raw(*self.ptr) }: the canonical storage is freed.
DropFree(h) ==
    /\ pc[h] = "D_free"
    /\ freed' = freed + 1
    /\ pc' = [pc EXCEPT ![h] = "D_arc"]
    /\ UNCHANGED <<local, version, latest, rw_signal, canonical, lv, value,
                   ret, npub, writers, strong>>
    /\ UNCHANGED nonMirrorVars

\* After drop() the fields are dropped: the handle's Arc of ptr gives up its count.
DropArc(h) ==
    /\ pc[h] = "D_arc"
    /\ strong' = strong - 1
    /\ pc' = [pc EXCEPT ![h] = "dead"]
    /\ UNCHANGED <<local, version, latest, rw_signal, canonical, lv, value,
                   ret, npub, writers, freed>>
    /\ UNCHANGED nonMirrorVars

----------------------------------------------------------------------------
\* One step of a publish call that handle h has begun.
PublishStep(h) ==
    \/ PublishAcquire(h) \/ PublishWrite1(h) \/ PublishWrite2(h)
    \/ PublishRelease(h) \/ PublishBump(h)

\* One step of a sync call that handle h has begun.
SyncStep(h) ==
    \/ SyncAcquire(h) \/ SyncRead1(h) \/ SyncRead2(h) \/ SyncRelease(h)

\* One step of a sync_noblock call that handle h has begun.
NoblockStep(h) ==
    \/ NoblockAcquire(h) \/ NoblockLocked(h)
    \/ NoblockRead1(h) \/ NoblockRead2(h) \/ NoblockRelease(h)

\* One step of a sync_timeout call that handle h has begun.
TimeoutStep(h) ==
    \/ TimeoutAcquire(h) \/ TimeoutExpire(h)
    \/ TimeoutRead1(h) \/ TimeoutRead2(h) \/ TimeoutRelease(h)

\* The cell in use: every handle publishes (if it is a writer) and synchronises
\* in any of the three ways, each on its own thread.
MirrorNext ==
    \E h \in Handles :
        \/ PublishCall(h) \/ PublishStep(h)
        \/ SyncCall(h) \/ SyncStep(h)
        \/ NoblockCall(h) \/ NoblockStep(h)
        \/ TimeoutCall(h) \/ TimeoutStep(h)
        \/ Return(h)

SpecMirror == ClonedInit /\ [][MirrorNext]_vars

\* The cell used through publish and sync alone.
PublishSyncNext ==
    \E h \in Handles :
        \/ PublishCall(h) \/ PublishStep(h)
        \/ SyncCall(h) \/ SyncStep(h)
        \/ Return(h)

\* Fair scheduling: every thread that is inside a call keeps running, so a step
\* of its call that stays possible is eventually taken.  Whether a handle begins
\* another call is up to the application.
SpecMirrorFair ==
    /\ ClonedInit
    /\ [][PublishSyncNext]_vars
    /\ \A h \in Handles : WF_vars(PublishStep(h) \/ SyncStep(h) \/ Return(h))

\* The life of a cell: handles are cloned, used through publish and sync, and
\* dropped, each on its own thread.
LifetimeNext ==
    \E h \in Handles :
        \/ Clone(h)
        \/ PublishCall(h) \/ PublishStep(h)
        \/ SyncCall(h) \/ SyncStep(h)
        \/ Return(h)
        \/ DropCheck(h) \/ DropFree(h) \/ DropArc(h)

SpecLifetime == MirrorInit /\ [][LifetimeNext]_vars

----------------------------------------------------------------------------
\* Properties of the Mirror cell.

\* Handle h has won compare_exchange(false, true) and has not yet stored false:
\* it is inside the unsafe copy of publish or of one of the three syncs.
InCS(h) ==
    pc[h] \in {"P_w1", "P_w2", "P_rel",
               "S_r1", "S_r2", "S_rel",
               "N_r1", "N_r2", "N_rel",
               "T_r1", "T_r2", "T_rel"}

\* Handle h is spinning on (or about to try) the compare_exchange.
AtAcquire(h) == pc[h] \in {"P_acq", "S_acq", "N_acq", "T_acq"}

\* Handle h is in the middle of copying the canonical value into its local: the
\* first word is copied, the second is not.  The call holds &mut self, so no
\* get() or deref of h can run now.
MidCopy(h) == pc[h] \in {"S_r2", "N_r2", "T_r2"}

\* C1: mutual exclusion.  In every interleaving of publish, sync, sync_noblock and
\* sync_timeout at most one handle is between its successful compare_exchange and
\* its store(false), so the steps that read or write the canonical storage (all of
\* them lie in that window) never overlap, two reads included; and the flag is
\* set exactly while some handle is in that window.
C1_MutualExclusion ==
    /\ \A h, g \in Handles : (h # g /\ InCS(h)) => ~InCS(g)
    /\ rw_signal = (\E h \in Handles : InCS(h))

\* C1 witness: a publish is half way through its copy while another handle, stale,
\* waits at the compare_exchange of its sync.
C1_Witness ==
    \E h, g \in Handles : h # g /\ pc[h] = "P_w2" /\ pc[g] = "S_acq" /\ rw_signal

\* C2: no torn values.  Whenever a handle's local can be observed (the handle is
\* not in the middle of its own copy), local is the initial value or the whole
\* value of some publish call made so far, never a mixture of two values.
C2_NoTornLocal ==
    \A h \in Handles :
        ~MidCopy(h) => \E k \in 0..npub : local[h] = Val(k)

\* C2 witness: the canonical storage is half written (its two words differ)
\* while another handle has returned from a sync with a whole published value.
C2_Witness ==
    \E h \in Handles :
        /\ pc[h] = "S_ret"
        /\ local[h] = Val(1)
        /\ canonical[1] # canonical[2]

\* C3: single writer.  A sync() that loads latest_version after the last publish
\* made so far has bumped it (lv = npub) returns with local equal to the value of
\* that last publish, whatever the reader did before.
C3_SyncSeesLastPublish ==
    \A h \in Handles :
        (writers = {1} /\ pc[h] = "S_ret" /\ lv[h] = npub) => local[h] = Val(npub)

\* C3 witness: a reader returns from a sync made after the second publish, having
\* synchronised to the first publish in between.
C3_Witness ==
    \E h \in Handles :
        /\ writers = {1} /\ h # 1
        /\ pc[h] = "S_ret" /\ lv[h] = npub /\ npub >= 2
        /\ pc[1] = "idle"
        /\ local[h] = Val(npub)

\* check_sync_status(): self.version == self.latest.load(Acquire)
CheckSyncStatus(h) == version[h] = latest

\* C4 as stated: the version a sync() will record (its latest_version) is the
\* value the shared counter has at the moment the sync wins the compare_exchange.
C4_VersionAtAcquisition ==
    [][\A h \in Handles :
          (pc[h] = "S_acq" /\ pc'[h] = "S_r1") => lv[h] = latest]_vars

\* C4, amended: sync() records as the handle's version the value latest_version
\* had when the call loaded it, at its start and before the flag is acquired.
\* When sync() returns, the handle's version equals that sample, does not exceed
\* the shared counter and (single writer) does not exceed the publish number of
\* the value now in local.
C4_VersionIsStartSample ==
    \A h \in Handles :
        pc[h] = "S_ret" =>
            /\ version[h] = lv[h]
            /\ version[h] <= latest
            /\ writers = {1} => \E k \in version[h]..npub : local[h] = Val(k)

\* C4 witness: a sync returns having copied the second publish while recording
\* version 1, the counter it loaded before that publish finished.
C4_Witness ==
    \E h \in Handles :
        /\ writers = {1}
        /\ pc[h] = "S_ret" /\ version[h] = 1 /\ lv[h] = 1
        /\ local[h] = Val(2) /\ latest = 2

\* Some other handle is inside the copy of a publish, holding the flag.
PublishInProgress(h) ==
    \E g \in Handles : g # h /\ pc[g] \in {"P_w1", "P_w2", "P_rel"}

C6_SyncAtLeastSampled ==
    \A h \in Handles :
        (writers = {1} /\ pc[h] = "S_ret") =>
            \E k \in lv[h]..npub : local[h] = Val(k)

\* C6 witness: a sync that loaded latest_version = 1 returns holding the value of
\* the second publish.
C6_Witness ==
    \E h \in Handles :
        /\ writers = {1} /\ h # 1
        /\ pc[h] = "S_ret" /\ lv[h] = 1 /\ local[h][1] > lv[h]

\* C7: no regression.  No step of any interleaving of publish, sync, sync_noblock
\* and sync_timeout lowers a handle's version or leaves it above the shared
\* latest_version; with a single writer the publish number of each word of a
\* handle's local never decreases either.
C7_NoRegression ==
    [][\A h \in Handles :
          /\ version'[h] >= version[h]
          /\ version[h] <= latest /\ version'[h] <= latest'
          /\ latest' >= latest
          /\ writers = {1} =>
                /\ local'[h][1] >= local[h][1]
                /\ local'[h][2] >= local[h][2]]_vars

\* C7 witness: a reader between calls holds the value of the second publish
\* under version 1 and is about to synchronise again.
C7_Witness ==
    \E h \in Handles :
        /\ writers = {1} /\ h # 1
        /\ pc[h] = "idle" /\ version[h] = 1 /\ local[h] = Val(2) /\ latest = 2

\* C8: single writer (handle 1).  The step that ends publish(v) leaves the writer
\* with local = v and check_sync_status() true, and every other handle stale;
\* between calls the writer stays in sync with local the last published value;
\* and another handle's version changes only at the end of its own sync, so it
\* stays stale until it syncs.
C8_PublisherNeverNeedsSync ==
    [][writers = {1} =>
          /\ (pc[1] = "P_inc" /\ pc'[1] = "P_ret") =>
                /\ local'[1] = Val(value[1])
                /\ CheckSyncStatus(1)'
                /\ \A g \in Handles : g # 1 => ~CheckSyncStatus(g)'
                /\ \A g \in Handles : g # 1 => version'[g] < latest'
          /\ pc'[1] \in {"P_ret", "idle"} =>
                CheckSyncStatus(1)' /\ local'[1] = Val(latest')
          /\ \A g \in Handles :
                (g # 1 /\ version'[g] # version[g]) =>
                    pc[g] \in {"S_rel", "N_rel", "T_rel"}]_vars

\* C8 witness: the second publish has just returned and a reader that had
\* synchronised to the first publish is stale again.
C8_Witness ==
    \E g \in Handles :
        /\ writers = {1} /\ g # 1
        /\ pc[1] = "P_ret" /\ local[1] = Val(2) /\ CheckSyncStatus(1)
        /\ pc[g] = "idle" /\ version[g] = 1 /\ ~CheckSyncStatus(g)

C10_FreedExactlyOnce ==
    /\ freed <= 1
    /\ freed = 1 => \A h \in Handles : pc[h] \in {"unborn", "D_arc", "dead"}
    /\ (\A h \in Handles : pc[h] \in {"unborn", "dead"}) => freed = 1

----------------------------------------------------------------------------
\* Part 2.  The input channel, src/src/input/stream.rs.

\* InputStream<FOLDS, SECTIONS>: folds per section and number of sections.
FOLDS == 3

SECTIONS == 2

\* Number of push_front calls made on the channel.
MaxPush == 3

\* Number of delivered packets the history variable got keeps.
MaxYield == 4

\* size_of::<FoldBits>(): one AtomicU64.
SizeOfFoldBits == 8

\* size_of::<DeltaPacket>(): a #[repr(u32)] enum with fields is laid out as a
\* union of #[repr(C)] structs, each a u32 tag followed by the variant's fields
\* (u16 code at offset 4, bool at offset 6), padded to the u32 alignment.
SizeOfDeltaPacket == 8

PER_FOLD_CAP == SizeOfFoldBits \div SizeOfDeltaPacket

SECTION_CAPACITY == FOLDS * PER_FOLD_CAP

\* Machine words.  A u32 is the pair <<hi, lo>> of its two 16-bit halves and a
\* u64 is the pair <<left, right>> of its two u32 halves; the bit operations
\* below are the operations of the machine on these pairs.
RECURSIVE BitAnd(_, _)
BitAnd(a, b) ==
    IF a = 0 \/ b = 0 THEN 0
    ELSE (a % 2) * (b % 2) + 2 * BitAnd(a \div 2, b \div 2)

RECURSIVE BitOr(_, _)
BitOr(a, b) ==
    IF a = 0 THEN b
    ELSE IF b = 0 THEN a
    ELSE (IF a % 2 = 1 \/ b % 2 = 1 THEN 1 ELSE 0) + 2 * BitOr(a \div 2, b \div 2)

\* The u32 of a number below 2^31 (`as u32` of a u8, u16 or bool).
U32(n) == <<n \div 65536, n % 65536>>

Zero32 == U32(0)

And32(x, y) == <<BitAnd(x[1], y[1]), BitAnd(x[2], y[2])>>

Or32(x, y) == <<BitOr(x[1], y[1]), BitOr(x[2], y[2])>>

\* x << n on a u32: bits shifted past bit 31 are lost.
Shl32(x, n) ==
    IF n >= 16
    THEN <<(x[2] * 2^(n - 16)) % 65536, 0>>
    ELSE <<(x[1] * 2^n + (x[2] * 2^n) \div 65536) % 65536, (x[2] * 2^n) % 65536>>

\* x >> n on a u32.
Shr32(x, n) ==
    IF n >= 16
    THEN <<0, x[1] \div 2^(n - 16)>>
    ELSE <<x[1] \div 2^n, (x[1] % 2^n) * 2^(16 - n) + x[2] \div 2^n>>

\* `as u16` and `as u8` of a u32: the low bits.
AsU16(x) == x[2]

AsU8(x) == x[2] % 256

\* enum DeltaPacket and Option<DeltaPacket>.  KeyboardKeyCode and
\* MouseButtonIndex are both a u16, held in the field code.
Keyboard(code, down) == [kind |-> "Keyboard", code |-> code, down |-> down]

Mouse(button, down) == [kind |-> "Mouse", code |-> button, down |-> down]

None == [kind |-> "None", code |-> 0, down |-> FALSE]

\* from_bits reached unreachable!(): the calling thread panics and no packet is
\* returned.
Unreachable == [kind |-> "unreachable", code |-> 0, down |-> FALSE]

KEYBOARD_ID_BIT == 1

MOUSE_ID_BIT == 2

CODE_BIT_SHIFT == 8

ID_BIT_SHIFT == 28

\* Mutant of from_bits: the code is masked to its low byte.
from_bits_narrow_mask(b) ==
    LET state == And32(b, U32(15))
        code == AsU16(And32(Shr32(b, CODE_BIT_SHIFT), U32(255)))
        id == AsU8(Shr32(b, ID_BIT_SHIFT))
    IN  IF id = KEYBOARD_ID_BIT THEN Keyboard(code, state = U32(1))
        ELSE IF id = MOUSE_ID_BIT THEN Mouse(code, state = U32(1))
        ELSE Unreachable

\* Mutant of from_bits: an unknown tag is decoded as a mouse packet.
from_bits_lenient(b) ==
    LET state == And32(b, U32(15))
        code == AsU16(And32(Shr32(b, CODE_BIT_SHIFT), U32(65535)))
        id == AsU8(Shr32(b, ID_BIT_SHIFT))
    IN  IF id = KEYBOARD_ID_BIT THEN Keyboard(code, state = U32(1))
        ELSE Mouse(code, state = U32(1))

\* DeltaPacket::from_bits
from_bits(b) ==
    LET state == And32(b, U32(15))
        code == AsU16(And32(Shr32(b, CODE_BIT_SHIFT), U32(65535)))
        id == AsU8(Shr32(b, ID_BIT_SHIFT))
    IN  IF id = KEYBOARD_ID_BIT THEN Keyboard(code, state = U32(1))
        ELSE IF id = MOUSE_ID_BIT THEN Mouse(code, state = U32(1))
        ELSE Unreachable

\* Mutant of as_bits: the type tag is left out of the word.
as_bits_no_id(p) ==
    LET code == U32(p.code)
        state == U32(IF p.down THEN 1 ELSE 0)
    IN  Or32(state, Shl32(code, 8))

\* DeltaPacket::as_bits: state | code << 8 | id
as_bits(p) ==
    LET code == U32(p.code)
        state == U32(IF p.down THEN 1 ELSE 0)
        id == Shl32(U32(IF p.kind = "Keyboard" THEN KEYBOARD_ID_BIT
                                                ELSE MOUSE_ID_BIT),
                    ID_BIT_SHIFT)
    IN  Or32(Or32(state, Shl32(code, 8)), id)

\* FoldBits::new(0)
FoldNew == <<Zero32, Zero32>>

\* FoldBits::read_bits: (value >> 32, value & 0xFFFFFFFF)
read_bits(f) == <<f[1], f[2]>>

\* Mutant of write_left: the packet is combined with the left half that is
\* already there.
write_left_or(f, p) == <<Or32(f[1], as_bits(p)), f[2]>>

\* FoldBits::write_left: store((bits as u64) << 32), the whole word is replaced.
write_left(f, p) == <<as_bits(p), Zero32>>

\* FoldBits::write_right: fetch_and(bits as u64), whose upper half is zero.
write_right(f, p) == <<And32(f[1], Zero32), And32(f[2], as_bits(p))>>

\* FoldBits::read_left
read_left(f) ==
    LET left == read_bits(f)[1]
    IN  IF left = Zero32 THEN None ELSE from_bits(left)

\* FoldBits::read_right
read_right(f) ==
    LET right == read_bits(f)[2]
    IN  IF right = Zero32 THEN None ELSE from_bits(right)

\* InputStreamIndex::new: (inner_index as u16) << 8 | section as u16
IndexNew(inner_index, sec) == BitOr((inner_index * 256) % 65536, sec)

\* InputStreamIndex::encode, the word it stores.
encode(index, sec) == BitOr((index * 256) % 65536, sec)

\* InputStreamIndex::extract on the word e: the pair it returns, (section, local).
extract(e) ==
    LET loc == BitAnd(e \div 256, 255)
        sec == BitAnd(e, 255)
    IN  <<sec, loc>>

\* InputStreamIndex::section
section(e) == extract(e)[1]

\* InputStreamIndex::advance_local on the word e: the word it stores and the
\* pair it returns.  `let (i, section) = self.extract()` binds i to the first
\* and section to the second component of the pair extract returns.
advance_local(e) ==
    LET i0 == extract(e)[1]
        sec == extract(e)[2]
        i == (i0 + 1) % (SECTION_CAPACITY % 256)
    IN  [word |-> encode(i, sec), ret |-> <<i, sec>>]

\* InputStreamIndex::advance_section on the word e: the word it stores.
\* `let (_, section) = self.extract()` binds section to the second component.
advance_section(e) ==
    LET sec0 == extract(e)[2]
        sec == (sec0 + 1) % (SECTIONS % 256)
    IN  encode(0, sec)

\* The packet of the k-th push_front call: every call pushes a different packet,
\* keyboard and mouse, press and release in turn.
Packet(k) == IF k % 2 = 1 THEN Keyboard(64 + k, TRUE) ELSE Mouse(k, FALSE)

\* The half of fold stream[sec][loc / 2] that slot loc addresses, as pop_back and
\* the drain iterator read it.
ReadSlot(sec, loc) ==
    IF loc % 2 = 0 THEN read_left(stream[sec][loc \div 2])
                   ELSE read_right(stream[sec][loc \div 2])

\* stream[sec][loc / 2] is inside the arrays.
InBounds(sec, loc) == sec < SECTIONS /\ loc \div 2 < FOLDS

\* The consumer is handed packet p.
Deliver(g, p) == IF Len(g) < MaxYield THEN Append(g, p) ELSE g

\* InputStream::new
StreamNew ==
    /\ head = IndexNew(0, 1)
    /\ tail = IndexNew(0, 0)
    /\ stream = [s \in 0..(SECTIONS - 1) |-> [f \in 0..(FOLDS - 1) |-> FoldNew]]
    /\ ppc = "idle"
    /\ pslot = <<0, 0>>
    /\ cpc = "idle"
    /\ iter = 0
    /\ sent = <<>>
    /\ got = <<>>
    /\ dstart = [got |-> 0, sent |-> 0]
    /\ inframe = 0
    /\ lag = 0

StreamInit ==
    /\ StreamNew
    /\ MirrorUnused /\ CodecUnused /\ AccumUnused /\ ContextUnused
    /\ KeysUnused

\* push_front, first half: head.advance_local() and the indexing of
\* self.stream[section] and section[fold], which panics out of bounds.
PushFrontAdvance ==
    /\ ppc = "idle"
    /\ Len(sent) < MaxPush
    /\ LET r == advance_local(head)
       IN  /\ head' = r.word
           /\ pslot' = r.ret
           /\ sent' = Append(sent, [packet |-> Packet(Len(sent) + 1),
                                    slot |-> r.ret,
                                    nth |-> inframe + 1])
           /\ ppc' = IF InBounds(r.ret[2], r.ret[1]) THEN "write" ELSE "panicked"
    /\ inframe' = inframe + 1
    /\ UNCHANGED <<tail, stream, cpc, iter, got, dstart, lag>>
    /\ UNCHANGED nonInputVars

\* push_front, second half: write_left or write_right on the fold.
PushFrontWrite ==
    /\ ppc = "write"
    /\ LET loc == pslot[1]
           sec == pslot[2]
           p == sent[Len(sent)].packet
       IN  stream' = [stream EXCEPT ![sec][loc \div 2] =
                         IF loc % 2 = 0 THEN write_left(@, p)
                                        ELSE write_right(@, p)]
    /\ ppc' = "idle"
    /\ UNCHANGED <<head, tail, pslot, cpc, iter, sent, got, dstart, inframe, lag>>
    /\ UNCHANGED nonInputVars

\* frame_front: self.head.advance_section()
FrameFront ==
    /\ ppc = "idle"
    /\ head' = advance_section(head)
    /\ inframe' = 0
    /\ lag' = 1
    /\ UNCHANGED <<tail, stream, ppc, pslot, cpc, iter, sent, got, dstart>>
    /\ UNCHANGED nonInputVars

\* pop_back
PopBack ==
    /\ cpc \in {"idle", "drained"}
    /\ LET r == advance_local(tail)
           loc == r.ret[1]
           sec == r.ret[2]
       IN  /\ tail' = r.word
           /\ IF ~InBounds(sec, loc) \/ ReadSlot(sec, loc) = Unreachable
              THEN cpc' = "panicked" /\ got' = got
              ELSE /\ cpc' = "idle"
                   /\ got' = IF ReadSlot(sec, loc) = None THEN got
                             ELSE Deliver(got, ReadSlot(sec, loc))
    /\ UNCHANGED <<head, stream, ppc, pslot, iter, sent, dstart, inframe, lag>>
    /\ UNCHANGED nonInputVars

\* The number of push_front calls that have returned.
Completed == IF ppc = "idle" THEN Len(sent) ELSE Len(sent) - 1

\* drain_back: the iterator borrows self.stream[self.tail.section()].
DrainBack ==
    /\ cpc \in {"idle", "drained"}
    /\ IF section(tail) < SECTIONS
       THEN /\ cpc' = "drain"
            /\ iter' = section(tail)
            /\ dstart' = [got |-> Len(got), sent |-> Completed]
       ELSE cpc' = "panicked" /\ UNCHANGED <<iter, dstart>>
    /\ UNCHANGED <<head, tail, stream, ppc, pslot, sent, got, inframe, lag>>
    /\ UNCHANGED nonInputVars

\* Mutant of IterInputStream::next inside for_each: an empty slot does not end
\* the loop.
DrainNextIgnoresNone ==
    /\ cpc = "drain"
    /\ LET r == advance_local(tail)
           loc == r.ret[1]
       IN  /\ tail' = r.word
           /\ IF ~InBounds(iter, loc) \/ ReadSlot(iter, loc) = Unreachable
              THEN cpc' = "panicked" /\ got' = got
              ELSE IF ReadSlot(iter, loc) = None
              THEN cpc' = "drain" /\ got' = got
              ELSE cpc' = "drain" /\ got' = Deliver(got, ReadSlot(iter, loc))
    /\ UNCHANGED <<head, stream, ppc, pslot, iter, sent, dstart, inframe, lag>>
    /\ UNCHANGED nonInputVars

\* IterInputStream::next inside for_each: a packet is handed on and the loop
\* goes on, None ends the loop.
DrainNext ==
    /\ cpc = "drain"
    /\ LET r == advance_local(tail)
           loc == r.ret[1]
       IN  /\ tail' = r.word
           /\ IF ~InBounds(iter, loc) \/ ReadSlot(iter, loc) = Unreachable
              THEN cpc' = "panicked" /\ got' = got
              ELSE IF ReadSlot(iter, loc) = None
              THEN cpc' = "drained" /\ got' = got
              ELSE cpc' = "drain" /\ got' = Deliver(got, ReadSlot(iter, loc))
    /\ UNCHANGED <<head, stream, ppc, pslot, iter, sent, dstart, inframe, lag>>
    /\ UNCHANGED nonInputVars

\* frame_back
FrameBack ==
    /\ cpc \in {"idle", "drained"}
    /\ LET next == (section(tail) + 1) % SECTIONS
       IN  tail' = IF next = section(head) THEN tail ELSE advance_section(tail)
    /\ cpc' = "idle"
    /\ lag' = 0
    /\ UNCHANGED <<head, stream, ppc, pslot, iter, sent, got, dstart, inframe>>
    /\ UNCHANGED nonInputVars

\* The channel in use: the producer thread and the consumer thread call the
\* operations of InputStream in any order.
StreamNext ==
    \/ PushFrontAdvance \/ PushFrontWrite \/ FrameFront
    \/ PopBack \/ DrainBack \/ DrainNext \/ FrameBack

SpecStream == StreamInit /\ [][StreamNext]_vars

----------------------------------------------------------------------------
\* Properties of the input channel.

\* C11: in every reachable state of the channel, whatever the interleaving of
\* push_front, frame_front, pop_back, drain iteration and frame_back, the
\* section of the head differs from the section of the tail.
C11_HeadTailDisjoint ==
    section(head) # section(tail)

\* C12: frame_front never moves the head into the section the tail occupies;
\* with two sections, a frame_front issued while an earlier frame_front has not
\* yet been followed by a frame_back of the reader leaves the head's section
\* as it was.
C12_RotationRefusedOnCollision ==
    [][FrameFront =>
          /\ section(head') # section(tail')
          /\ (SECTIONS = 2 /\ lag = 1) => section(head') = section(head)]_vars

\* The packets of the push_front calls made so far, in push order.
Pushed == [k \in 1..Len(sent) |-> sent[k].packet]

\* C13: when N packets, N at most the capacity of a section, have been pushed
\* with no frame_front between them, all into one section that was empty, and
\* the consumer then drains that section to the end, the drain yields exactly
\* those N packets in push order.
C13_FifoWithinSection ==
    ( /\ cpc = "drained"
      /\ dstart.got = 0
      /\ dstart.sent = Len(sent)
      /\ Len(sent) \in 1..SECTION_CAPACITY
      /\ \A k \in 1..Len(sent) : sent[k].nth = k /\ sent[k].slot[2] = iter )
    => got = Pushed

\* One step of the producer inside a frame: a push_front that has begun goes on.
ProducerStep == PushFrontWrite

\* The end of a producer frame, InputDispatcher::sync: frame_front, once the
\* consumer has finished a frame since the last one.
ProducerFrame == lag = 0 /\ FrameFront

\* One step of a consumer frame: InputState::poll_key_events drains to the end,
\* then InputState::sync calls frame_back.
ConsumerStep ==
    \/ (cpc = "idle" /\ DrainBack)
    \/ DrainNext
    \/ (cpc = "drained" /\ FrameBack)

\* The channel used frame by frame with a consumer that keeps up: a producer
\* frame is at most one section's capacity of push_front calls and then
\* frame_front; a consumer frame is a drain to exhaustion and then frame_back.
FramesNext ==
    \/ (inframe < SECTION_CAPACITY /\ PushFrontAdvance)
    \/ ProducerStep
    \/ ProducerFrame
    \/ ConsumerStep

\* Both threads keep running: a begun push_front returns, the producer's frames
\* keep ending and the consumer's frames keep coming.  Whether another key event
\* arrives is up to the user.
SpecFrames ==
    /\ StreamInit
    /\ [][FramesNext]_vars
    /\ WF_vars(ProducerStep)
    /\ WF_vars(ProducerFrame)
    /\ WF_vars(ConsumerStep)

\* Sequence s is an initial part of sequence t.
IsPrefix(s, t) == Len(s) <= Len(t) /\ \A k \in 1..Len(s) : s[k] = t[k]

\* C14: with a consumer that keeps up, every packet given to push_front is
\* eventually handed to the consumer, and the packets are handed over in the
\* order they were pushed.
C14_DeliveredInOrder ==
    /\ [](IsPrefix(got, Pushed))
    /\ \A k \in 1..MaxPush : (Len(sent) >= k) ~> (Len(got) >= k)

----------------------------------------------------------------------------
\* The packet codec and the fold accessors taken alone.

\* Width of KeyboardKeyCode(u16) and MouseButtonIndex(u16).
CodeBits == 16

\* Codes that exercise every bit of the code field: zero, each single bit, each
\* run of low bits up to all sixteen, and the code of the key in the example.
Codes == {0, 65} \cup {2^k : k \in 0..(CodeBits - 1)}
                \cup {2^k - 1 : k \in 1..CodeBits}

\* The packets of both variants over these codes, pressed and released.
Packets == {Keyboard(c, d) : c \in Codes, d \in BOOLEAN}
               \cup {Mouse(c, d) : c \in Codes, d \in BOOLEAN}

\* 32-bit words of every type tag, with the lowest and the highest bits of the
\* other fields clear and set.
RawWords == {<<t * 4096 + r, l>> : t \in 0..15, r \in {0, 1, 255, 4095},
                                   l \in {0, 1, 2, 256, 65535}}

\* Halves of a fold: empty, the packets with the least and the most bits set,
\* and words no packet encodes to.
Halves == {Zero32, as_bits(Keyboard(0, FALSE)), as_bits(Mouse(65535, TRUE)),
           as_bits(Keyboard(65, TRUE)), <<0, 1>>, <<61440, 0>>}

\* The type tag of a 32-bit word: its top four bits.
Tag(b) == b[1] \div 4096

\* One call is made on one input: as_bits on a packet and from_bits on its
\* result, from_bits on a given word, or read_left / read_right on a given fold.
CodecInit ==
    /\ \/ packet \in Packets /\ bits = Zero32 /\ fold = FoldNew /\ kpc = "packet"
       \/ packet = None /\ bits \in RawWords /\ fold = FoldNew /\ kpc = "word"
       \/ packet = None /\ bits = Zero32 /\ fold \in Halves \X Halves /\ kpc = "fold"
    /\ decoded = None
    /\ MirrorUnused /\ InputUnused /\ AccumUnused /\ ContextUnused
    /\ KeysUnused

\* p.as_bits()
AsBits ==
    /\ kpc = "packet"
    /\ bits' = as_bits(packet)
    /\ kpc' = "as_bits"
    /\ UNCHANGED <<packet, fold, decoded>>
    /\ UNCHANGED nonCodecVars

\* DeltaPacket::from_bits(bits): a packet is returned, or the thread panics.
FromBits ==
    /\ kpc \in {"as_bits", "word"}
    /\ IF from_bits(bits) = Unreachable
       THEN kpc' = "panicked" /\ decoded' = decoded
       ELSE kpc' = "from_bits" /\ decoded' = from_bits(bits)
    /\ UNCHANGED <<packet, bits, fold>>
    /\ UNCHANGED nonCodecVars

\* fold.read_left()
ReadLeft ==
    /\ kpc = "fold"
    /\ IF read_left(fold) = Unreachable
       THEN kpc' = "panicked" /\ decoded' = decoded
       ELSE kpc' = "read_left" /\ decoded' = read_left(fold)
    /\ UNCHANGED <<packet, bits, fold>>
    /\ UNCHANGED nonCodecVars

\* fold.read_right()
ReadRight ==
    /\ kpc = "fold"
    /\ IF read_right(fold) = Unreachable
       THEN kpc' = "panicked" /\ decoded' = decoded
       ELSE kpc' = "read_right" /\ decoded' = read_right(fold)
    /\ UNCHANGED <<packet, bits, fold>>
    /\ UNCHANGED nonCodecVars

CodecNext == AsBits \/ FromBits \/ ReadLeft \/ ReadRight

SpecCodec == CodecInit /\ [][CodecNext]_vars

\* C15: decoding the encoding of a packet gives the packet back: the same
\* variant, the same code and the same down flag, for every packet.
C15_RoundTrip ==
    /\ (kpc = "from_bits" /\ packet # None) => decoded = packet
    /\ kpc = "panicked" => packet = None

\* Keyboard{code = 65, down = true} has been encoded and decoded.
C15_Witness ==
    /\ kpc = "from_bits"
    /\ packet = Keyboard(65, TRUE)
    /\ decoded = Keyboard(65, TRUE)

\* C16: the encoding of a packet is never the zero word, and read_left and
\* read_right return None exactly when the half they read is zero.
C16_ZeroMeansEmpty ==
    /\ kpc = "as_bits" => bits # Zero32
    /\ kpc = "read_left" => (decoded = None <=> fold[1] = Zero32)
    /\ kpc = "read_right" => (decoded = None <=> fold[2] = Zero32)

\* The packet whose fields are all zero has been encoded.
C16_Witness ==
    /\ kpc = "as_bits"
    /\ packet = Keyboard(0, FALSE)

\* C17: from_bits on a word whose type tag is neither the keyboard tag nor the
\* mouse tag panics and returns no packet.
C17_UnknownTagIsFatal ==
    (kpc \in {"from_bits", "panicked"} /\ Tag(bits) \notin {KEYBOARD_ID_BIT, MOUSE_ID_BIT})
        => (kpc = "panicked" /\ decoded = None)

\* from_bits has been given a word with the highest tag and has panicked.
C17_Witness ==
    /\ kpc = "panicked"
    /\ Tag(bits) = 15
    /\ decoded = None

----------------------------------------------------------------------------
\* Part 3.  The fixed-timestep accumulator, src/src/context.rs.  Durations are
\* whole numbers of one time unit (a millisecond in the examples).

\* Largest step duration given to new and set_step.
MaxStep == 16

\* Largest total time the clock advances over all accum() calls.
MaxElapsed == 50

\* DeltaAccumulator::new(step, start_time): accumulated is Duration::default().
AccumNew ==
    /\ step \in 0..MaxStep
    /\ accumulated = 0
    /\ aret = "none"
    /\ elapsed = 0
    /\ ticks = 0
    /\ restepped = FALSE

AccumInit ==
    /\ AccumNew
    /\ MirrorUnused /\ InputUnused /\ CodecUnused /\ ContextUnused
    /\ KeysUnused

\* set_step(s)
SetStep ==
    /\ \E s \in 0..MaxStep : step' = s
    /\ aret' = "none"
    /\ elapsed' = accumulated
    /\ ticks' = 0
    /\ restepped' = TRUE
    /\ UNCHANGED accumulated
    /\ UNCHANGED nonAccumVars

\* Mutant of time_ahead: a plain subtraction, which does not stop at zero.
time_ahead_unsaturated == step - accumulated

\* time_ahead(): self.step.saturating_sub(self.accumulated)
time_ahead == IF step >= accumulated THEN step - accumulated ELSE 0

\* accum(): cycle.sync() measures the time d since the previous call on the
\* monotonic clock, and accumulated += d.
Accum ==
    /\ \E d \in 0..MaxElapsed :
         /\ elapsed + d <= MaxElapsed
         /\ accumulated' = accumulated + d
         /\ elapsed' = elapsed + d
    /\ aret' = "none"
    /\ UNCHANGED <<step, ticks, restepped>>
    /\ UNCHANGED nonAccumVars

\* Mutant of Overstep: a tick needs more than a full step.
OverstepStrict ==
    /\ ticks <= MaxElapsed
    /\ LET overstep == accumulated > step
       IN  /\ accumulated' = IF overstep THEN accumulated - step ELSE accumulated
           /\ aret' = IF overstep THEN "true" ELSE "false"
           /\ ticks' = IF overstep THEN ticks + 1 ELSE ticks
    /\ UNCHANGED <<step, elapsed, restepped>>
    /\ UNCHANGED nonAccumVars

\* Mutant of Overstep: a tick empties the accumulator.
OverstepClears ==
    /\ ticks <= MaxElapsed
    /\ LET overstep == accumulated >= step
       IN  /\ accumulated' = IF overstep THEN 0 ELSE accumulated
           /\ aret' = IF overstep THEN "true" ELSE "false"
           /\ ticks' = IF overstep THEN ticks + 1 ELSE ticks
    /\ UNCHANGED <<step, elapsed, restepped>>
    /\ UNCHANGED nonAccumVars

\* overstep()
Overstep ==
    /\ ticks <= MaxElapsed
    /\ LET overstep == accumulated >= step
       IN  /\ accumulated' = IF overstep THEN accumulated - step ELSE accumulated
           /\ aret' = IF overstep THEN "true" ELSE "false"
           /\ ticks' = IF overstep THEN ticks + 1 ELSE ticks
    /\ UNCHANGED <<step, elapsed, restepped>>
    /\ UNCHANGED nonAccumVars

\* The accumulator in use: its owner calls set_step, accum and overstep in any
\* order.
AccumNext == SetStep \/ Accum \/ Overstep

SpecAccum == AccumInit /\ [][AccumNext]_vars

\* C18: an overstep() call returns true and takes exactly step off accumulated
\* when accumulated >= step, otherwise returns false and leaves accumulated as
\* it is; it never changes step.
C18_OverstepContract ==
    [][aret' \in {"true", "false"} =>
          /\ accumulated >= step =>
                 (aret' = "true" /\ accumulated' = accumulated - step)
          /\ accumulated < step =>
                 (aret' = "false" /\ accumulated' = accumulated)
          /\ step' = step]_vars

\* overstep() has returned true with a positive step and left a remainder.
C18_Witness ==
    /\ aret = "true"
    /\ step > 0
    /\ accumulated > 0
    /\ ticks = 1

\* C19: with the step fixed at a positive value since new, once overstep() has
\* returned false the number of true results is the whole quotient of the total
\* elapsed time by step, and accumulated is the remainder.
C19_TickCount ==
    (~restepped /\ step > 0 /\ aret = "false")
        => (ticks = elapsed \div step /\ accumulated = elapsed % step)

\* step 16 and 50 elapsed: drained after 3 ticks with 2 left.
C19_Witness ==
    /\ ~restepped
    /\ step = 16
    /\ elapsed = 50
    /\ aret = "false"
    /\ ticks = 3
    /\ accumulated = 2

\* C20: accumulated is never negative; once overstep() has returned false it
\* is below step and time_ahead() is step - accumulated, a positive duration;
\* whenever accumulated is at least step, time_ahead() is zero.
C20_AccumulatorRange ==
    /\ accumulated >= 0
    /\ aret = "false" =>
           /\ accumulated < step
           /\ time_ahead = step - accumulated
           /\ time_ahead > 0
    /\ accumulated >= step => time_ahead = 0

\* A drain has ended with time left in the accumulator, so that time_ahead()
\* is a part of the step.
C20_Witness ==
    /\ aret = "false"
    /\ accumulated > 0
    /\ time_ahead > 0
    /\ time_ahead < step

\* ===========================================================================
\* Part 4.  Context: the window handler, the state handle and the simulation
\*          thread                       (src/src/context.rs, src/src/window.rs)
\* ===========================================================================
\*
\* The main thread runs the event loop (lib.rs, run): winit delivers resumed,
\* window events and exiting to the Context, and run drops the Context when
\* run_app returns or a handler panics.  resumed builds the display, runs the
\* one-shot init routine and calls initialise_thread, which moves the state
\* into a spawned thread.  That thread runs the fixed-step loop for ever.
\* Durations are whole numbers of an arbitrary time unit.

MaxResume == 2    \* resumed() deliveries explored
MaxDraw == 1      \* redraws counted
MaxLoopStep == 2  \* step durations the state may report: 0..MaxLoopStep
MaxLoopAccum == 4 \* largest accumulated time explored in the loop
MaxTick == 5      \* update calls counted within one loop iteration; more than
                  \* any iteration with a non-zero step makes (MaxLoopAccum + 1)

\* Context::new / Context::default.
ContextNew ==
    /\ init = "Some"
    /\ state_handle = "Uninitialised"
    /\ logic_thread = "None"
    /\ gl_display = "Pending"
    /\ display = "None"
    /\ exit = FALSE
    /\ mpc = "loop"
    /\ lpc = "none"
    /\ delta = [step |-> 0, accumulated |-> 0]
    /\ loop_iter = 0
    /\ state_step \in 0..MaxLoopStep
    /\ handle_log = <<"Uninitialised">>
    /\ init_log = <<>>
    /\ spawned = 0
    /\ resumes = 0
    /\ drawn = 0
    /\ hooks = 0
    /\ updates = 0
    /\ trues = 0
    /\ set_steps = 0

ContextInit ==
    /\ ContextNew
    /\ MirrorUnused /\ InputUnused /\ CodecUnused /\ AccumUnused
    /\ KeysUnused

loopVars ==
    <<lpc, delta, loop_iter, state_step, hooks, updates, trues, set_steps>>

\* What the window system and the init routine answer during one resumed():
\*   "no_window"  DisplayBuilder::build gives Ok((None, config))   (window.rs:89)
\*   "build_err"  build / finalize_window gives Err          (window.rs:97, 117)
\*   "gl_panic"   one of the expect/unwrap calls on the surface fails
\*   "init_ok" / "init_err"  the display is made; what init.init returns, if run
Outcomes == {"no_window", "build_err", "gl_panic", "init_ok", "init_err"}

\* A variant of resumed that calls initialise_thread whatever init.init
\* returned.
ResumedIgnoresInitError ==
    /\ mpc = "loop" /\ ~exit
    /\ resumes < MaxResume
    /\ resumes' = resumes + 1
    /\ \E o \in Outcomes :
         IF o = "no_window" /\ gl_display = "Pending"
         THEN UNCHANGED <<init, gl_display, display, exit, mpc, init_log>>
         ELSE IF o = "build_err"
         THEN /\ exit' = TRUE
              /\ UNCHANGED <<init, gl_display, display, mpc, init_log>>
         ELSE IF o = "gl_panic"
         THEN /\ gl_display' = "Created"
              /\ mpc' = "panicked"
              /\ UNCHANGED <<init, display, exit, init_log>>
         ELSE /\ o \in {"init_ok", "init_err"}
              /\ gl_display' = "Created"
              /\ display' = "Some"
              /\ exit' = exit
              /\ IF display # "None"
                 THEN /\ mpc' = "panicked"
                      /\ UNCHANGED <<init, init_log>>
                 ELSE IF init = "Some"
                 THEN /\ init' = "None"
                      /\ IF state_handle = "Uninitialised"
                         THEN /\ init_log' = Append(init_log, o)
                              /\ mpc' = "initialise_thread"
                         ELSE UNCHANGED <<mpc, init_log>>
                 ELSE UNCHANGED <<init, mpc, init_log>>
    /\ UNCHANGED <<state_handle, logic_thread, handle_log, spawned, drawn>>
    /\ UNCHANGED loopVars
    /\ UNCHANGED nonContextVars

\* ApplicationHandler::resumed up to the call of initialise_thread.
Resumed ==
    /\ mpc = "loop" /\ ~exit
    /\ resumes < MaxResume
    /\ resumes' = resumes + 1
    /\ \E o \in Outcomes :
         IF o = "no_window" /\ gl_display = "Pending"
         THEN UNCHANGED <<init, gl_display, display, exit, mpc, init_log>>
         ELSE IF o = "build_err"
         THEN /\ exit' = TRUE
              /\ UNCHANGED <<init, gl_display, display, mpc, init_log>>
         ELSE IF o = "gl_panic"
         THEN /\ gl_display' = "Created"
              /\ mpc' = "panicked"
              /\ UNCHANGED <<init, display, exit, init_log>>
         ELSE /\ o \in {"init_ok", "init_err"}
              /\ gl_display' = "Created"
              /\ display' = "Some"
              /\ exit' = exit
              /\ IF display # "None"
                 THEN \* assert!(self.display.replace(..).is_none())
                      /\ mpc' = "panicked"
                      /\ UNCHANGED <<init, init_log>>
                 ELSE IF init = "Some"
                 THEN /\ init' = "None"
                      /\ IF state_handle = "Uninitialised"
                         THEN /\ init_log' = Append(init_log, o)
                              /\ mpc' = IF o = "init_ok"
                                        THEN "initialise_thread" ELSE "loop"
                         ELSE UNCHANGED <<mpc, init_log>>
                 ELSE UNCHANGED <<init, mpc, init_log>>
    /\ UNCHANGED <<state_handle, logic_thread, handle_log, spawned, drawn>>
    /\ UNCHANGED loopVars
    /\ UNCHANGED nonContextVars

\* A variant of the first half of initialise_thread that goes on to spawn
\* whatever the handle held.
InitialiseThreadUnchecked ==
    /\ mpc = "initialise_thread"
    /\ state_handle' = "Preparing"
    /\ handle_log' = IF state_handle = "Preparing" THEN handle_log
                     ELSE Append(handle_log, "Preparing")
    /\ mpc' = "spawn"
    /\ UNCHANGED <<init, logic_thread, gl_display, display, exit, init_log,
                   spawned, resumes, drawn>>
    /\ UNCHANGED loopVars
    /\ UNCHANGED nonContextVars

\* Context::initialise_thread, first half: the handle is replaced by Preparing
\* and the value taken out is tested.
InitialiseThread ==
    /\ mpc = "initialise_thread"
    /\ state_handle' = "Preparing"
    /\ handle_log' = IF state_handle = "Preparing" THEN handle_log
                     ELSE Append(handle_log, "Preparing")
    /\ mpc' = IF state_handle = "Uninitialised" THEN "spawn" ELSE "panicked"
    /\ UNCHANGED <<init, logic_thread, gl_display, display, exit, init_log,
                   spawned, resumes, drawn>>
    /\ UNCHANGED loopVars
    /\ UNCHANGED nonContextVars

\* A variant of the second half of initialise_thread that returns without
\* storing Acquired.
SpawnKeepsPreparing ==
    /\ mpc = "spawn"
    /\ \/ /\ spawned' = spawned + 1
          /\ lpc' = "start"
          /\ mpc' = "loop"
          /\ UNCHANGED <<state_handle, handle_log>>
       \/ /\ mpc' = "panicked"
          /\ UNCHANGED <<spawned, lpc, state_handle, handle_log>>
    /\ UNCHANGED <<init, logic_thread, gl_display, display, exit, init_log,
                   resumes, drawn>>
    /\ UNCHANGED <<delta, loop_iter, state_step, hooks, updates, trues,
                   set_steps>>
    /\ UNCHANGED nonContextVars

\* Context::initialise_thread, second half: std::thread::spawn, which panics
\* when the system cannot create a thread, and the store of Acquired.
Spawn ==
    /\ mpc = "spawn"
    /\ \/ /\ spawned' = spawned + 1
          /\ lpc' = "start"
          /\ state_handle' = "Acquired"
          /\ handle_log' = Append(handle_log, "Acquired")
          /\ mpc' = "loop"
       \/ /\ mpc' = "panicked"
          /\ UNCHANGED <<spawned, lpc, state_handle, handle_log>>
    /\ UNCHANGED <<init, logic_thread, gl_display, display, exit, init_log,
                   resumes, drawn>>
    /\ UNCHANGED <<delta, loop_iter, state_step, hooks, updates, trues,
                   set_steps>>
    /\ UNCHANGED nonContextVars

\* ApplicationHandler::window_event, RedrawRequested.
Redraw ==
    /\ mpc = "loop" /\ ~exit
    /\ display = "Some"
    /\ drawn < MaxDraw
    /\ drawn' = drawn + 1
    /\ UNCHANGED <<init, state_handle, logic_thread, gl_display, display, exit,
                   mpc, handle_log, init_log, spawned, resumes>>
    /\ UNCHANGED loopVars
    /\ UNCHANGED nonContextVars

\* ApplicationHandler::window_event, CloseRequested.
CloseRequested ==
    /\ mpc = "loop" /\ ~exit
    /\ exit' = TRUE
    /\ UNCHANGED <<init, state_handle, logic_thread, gl_display, display, mpc,
                   handle_log, init_log, spawned, resumes, drawn>>
    /\ UNCHANGED loopVars
    /\ UNCHANGED nonContextVars

\* ApplicationHandler::exiting, after which run_app returns.
Exiting ==
    /\ mpc = "loop" /\ exit
    /\ display' = "None"
    /\ mpc' = "exited"
    /\ UNCHANGED <<init, state_handle, logic_thread, gl_display, exit,
                   handle_log, init_log, spawned, resumes, drawn>>
    /\ UNCHANGED loopVars
    /\ UNCHANGED nonContextVars

\* impl Drop for Context, run when lib.rs run returns or unwinds: it joins the
\* thread in logic_thread if there is one, and a join returns only once that
\* thread has terminated.  The fields are dropped afterwards; dropping the
\* JoinHandle inside Acquired detaches the thread and leaves it running.
DropContext ==
    /\ mpc \in {"exited", "panicked"}
    /\ logic_thread = "Some" => lpc = "terminated"
    /\ logic_thread' = "None"
    /\ mpc' = "dropped"
    /\ UNCHANGED <<init, state_handle, gl_display, display, exit, handle_log,
                   init_log, spawned, resumes, drawn>>
    /\ UNCHANGED loopVars
    /\ UNCHANGED nonContextVars

mainVars == <<init, state_handle, logic_thread, gl_display, display, exit, mpc,
              handle_log, init_log, spawned, resumes, drawn>>

\* The spawned closure before its loop: DeltaAccumulator::new(step, now).
LoopStart ==
    /\ lpc = "start"
    /\ delta' = [step |-> state_step, accumulated |-> 0]
    /\ loop_iter' = 0
    /\ lpc' = "new_frame"
    /\ UNCHANGED <<state_step, hooks, updates, trues, set_steps>>
    /\ UNCHANGED mainVars
    /\ UNCHANGED nonContextVars

\* state.new_frame(), the first statement of the loop body.
LoopNewFrame ==
    /\ lpc = "new_frame"
    /\ hooks' = hooks + 1
    /\ updates' = 0
    /\ trues' = 0
    /\ lpc' = "accum"
    /\ UNCHANGED <<delta, loop_iter, state_step, set_steps>>
    /\ UNCHANGED mainVars
    /\ UNCHANGED nonContextVars

\* delta.accum(): the time since the last accum is added.
LoopAccum ==
    /\ lpc = "accum"
    /\ \E d \in 0..MaxLoopAccum :
         /\ delta.accumulated + d <= MaxLoopAccum
         /\ delta' = [delta EXCEPT !.accumulated = @ + d]
    /\ lpc' = "overstep"
    /\ UNCHANGED <<loop_iter, state_step, hooks, updates, trues, set_steps>>
    /\ UNCHANGED mainVars
    /\ UNCHANGED nonContextVars

\* The counters of one iteration stop at MaxTick, which then reads "MaxTick or
\* more": only `iter == 0` is ever tested, and the histories are not part of
\* the program.
Counted(n) == IF n < MaxTick THEN n + 1 ELSE n

\* A variant of the loop test that runs the tick body only for the first true
\* result of an iteration.
LoopOverstepOnce ==
    /\ lpc = "overstep"
    /\ delta.accumulated >= delta.step => trues < MaxTick
    /\ IF delta.accumulated >= delta.step
       THEN /\ delta' = [delta EXCEPT !.accumulated = @ - delta.step]
            /\ trues' = trues + 1
            /\ lpc' = IF loop_iter = 0 THEN "tick" ELSE "overstep"
       ELSE /\ lpc' = "end"
            /\ UNCHANGED <<delta, trues>>
    /\ UNCHANGED <<loop_iter, state_step, hooks, updates, set_steps>>
    /\ UNCHANGED mainVars
    /\ UNCHANGED nonContextVars

\* while delta.overstep(): the test of the inner loop.
LoopOverstep ==
    /\ lpc = "overstep"
    /\ IF delta.accumulated >= delta.step
       THEN /\ delta' = [delta EXCEPT !.accumulated = @ - delta.step]
            /\ trues' = Counted(trues)
            /\ lpc' = "tick"
       ELSE /\ lpc' = "end"
            /\ UNCHANGED <<delta, trues>>
    /\ UNCHANGED <<loop_iter, state_step, hooks, updates, set_steps>>
    /\ UNCHANGED mainVars
    /\ UNCHANGED nonContextVars

\* A variant of the tick body that applies the state's step duration on every
\* tick.
LoopTickAlwaysSetsStep ==
    /\ lpc = "tick"
    /\ delta' = [delta EXCEPT !.step = state_step]
    /\ set_steps' = Counted(set_steps)
    /\ updates' = Counted(updates)
    /\ state_step' \in 0..MaxLoopStep
    /\ loop_iter' = Counted(loop_iter)
    /\ lpc' = "overstep"
    /\ UNCHANGED <<hooks, trues>>
    /\ UNCHANGED mainVars
    /\ UNCHANGED nonContextVars

\* The body of the inner loop: set_step on the first tick of the iteration,
\* state.update (which may change the state's step duration), iter += 1.
LoopTick ==
    /\ lpc = "tick"
    /\ delta' = IF loop_iter = 0 THEN [delta EXCEPT !.step = state_step]
                ELSE delta
    /\ set_steps' = IF loop_iter = 0 THEN set_steps + 1 ELSE set_steps
    /\ updates' = Counted(updates)
    /\ state_step' \in 0..MaxLoopStep
    /\ loop_iter' = Counted(loop_iter)
    /\ lpc' = "overstep"
    /\ UNCHANGED <<hooks, trues>>
    /\ UNCHANGED mainVars
    /\ UNCHANGED nonContextVars

\* The end of the loop body: the sleep when the step is ahead, and iter = 0.
LoopEnd ==
    /\ lpc = "end"
    /\ loop_iter' = 0
    /\ hooks' = 0
    /\ set_steps' = 0
    /\ lpc' = "new_frame"
    /\ UNCHANGED <<delta, state_step, updates, trues>>
    /\ UNCHANGED mainVars
    /\ UNCHANGED nonContextVars

LoopNext ==
    \/ LoopStart
    \/ LoopNewFrame
    \/ LoopAccum
    \/ LoopOverstep
    \/ LoopTick
    \/ LoopEnd

ContextNext ==
    \/ Resumed
    \/ InitialiseThread
    \/ Spawn
    \/ Redraw
    \/ CloseRequested
    \/ Exiting
    \/ DropContext
    \/ LoopNext

SpecContext == ContextInit /\ [][ContextNext]_vars

\* C21: StateHandle is a one-way state machine.  The values state_handle takes
\* over the life of a Context are, in order, a prefix of Uninitialised,
\* Preparing, Acquired (so each transition happens at most once, nothing leaves
\* Acquired and nothing returns to Uninitialised), and state_handle is
\* Preparing only inside initialise_thread or after it has panicked, never once
\* it has returned to the event loop.
C21_OneWayStateHandle ==
    /\ IsPrefix(handle_log, <<"Uninitialised", "Preparing", "Acquired">>)
    /\ state_handle = handle_log[Len(handle_log)]
    /\ state_handle = "Preparing" => mpc \in {"spawn", "panicked", "dropped"}
    /\ (state_handle = "Preparing" /\ mpc = "dropped") => spawned = 0

C21_Witness ==
    /\ handle_log = <<"Uninitialised", "Preparing", "Acquired">>
    /\ state_handle = "Acquired"
    /\ mpc = "dropped"

\* initialise_thread taken alone: it is pub(crate), so the contract of a call
\* made with any value of state_handle is examined, beyond the single call
\* resumed makes.  The Context starts with a handle in any of its three states
\* (with the thread an Acquired handle stands for already running) and
\* initialise_thread about to be called; after a call that returned, it may be
\* called again.
InitialiseInit ==
    /\ init = "None"
    /\ state_handle \in {"Uninitialised", "Preparing", "Acquired"}
    /\ logic_thread = "None"
    /\ gl_display = "Created"
    /\ display = "Some"
    /\ exit = FALSE
    /\ mpc = "initialise_thread"
    /\ lpc = IF state_handle = "Acquired" THEN "start" ELSE "none"
    /\ delta = [step |-> 0, accumulated |-> 0]
    /\ loop_iter = 0
    /\ state_step \in 0..MaxLoopStep
    /\ handle_log =
         IF state_handle = "Uninitialised" THEN <<"Uninitialised">>
         ELSE IF state_handle = "Preparing" THEN <<"Uninitialised", "Preparing">>
         ELSE <<"Uninitialised", "Preparing", "Acquired">>
    /\ init_log = <<"init_ok">>
    /\ spawned = IF state_handle = "Acquired" THEN 1 ELSE 0
    /\ resumes = 1
    /\ drawn = 0
    /\ hooks = 0
    /\ updates = 0
    /\ trues = 0
    /\ set_steps = 0
    /\ MirrorUnused /\ InputUnused /\ CodecUnused /\ AccumUnused
    /\ KeysUnused

\* A further call of initialise_thread from the event loop.
CallAgain ==
    /\ mpc = "loop"
    /\ mpc' = "initialise_thread"
    /\ UNCHANGED <<init, state_handle, logic_thread, gl_display, display, exit,
                   handle_log, init_log, spawned, resumes, drawn>>
    /\ UNCHANGED loopVars
    /\ UNCHANGED nonContextVars

InitialiseNext ==
    \/ InitialiseThread
    \/ Spawn
    \/ CallAgain
    \/ DropContext
    \/ LoopNext

SpecInitialise == InitialiseInit /\ [][InitialiseNext]_vars

\* C22: a call of initialise_thread made while state_handle is not
\* Uninitialised panics and starts no thread, and over the whole life of a
\* Context thread::spawn starts at most one thread.
C22_SecondCallPanics ==
    /\ [][(InitialiseThread /\ state_handle # "Uninitialised")
            => (mpc' = "panicked" /\ spawned' = spawned /\ lpc' = lpc)]_vars
    /\ [][mpc = "panicked" => spawned' = spawned]_vars
    /\ [](spawned <= 1)

C22_Witness ==
    /\ mpc = "panicked"
    /\ spawned = 1
    /\ handle_log = <<"Uninitialised", "Preparing", "Acquired", "Preparing">>

\* C23: init failure degrades instead of aborting.  init.init is called at
\* most once per Context, however often resumed is delivered, and before
\* initialise_thread is entered and any thread is spawned; once it has
\* returned an error initialise_thread is never entered, state_handle stays
\* Uninitialised and no thread exists; and the resumed call in which it failed
\* returns to the event loop without a panic or an exit request, with the
\* display in place for the next redraw.
C23_InitFailureDegrades ==
    /\ [](Len(init_log) <= 1)
    /\ []((spawned > 0 \/ mpc \in {"initialise_thread", "spawn"}
           \/ state_handle # "Uninitialised") => init_log = <<"init_ok">>)
    /\ [](init_log = <<"init_err">> =>
            /\ state_handle = "Uninitialised"
            /\ handle_log = <<"Uninitialised">>
            /\ spawned = 0 /\ lpc = "none"
            /\ mpc \notin {"initialise_thread", "spawn"})
    /\ [][(Resumed /\ init_log # <<"init_err">> /\ init_log' = <<"init_err">>)
            => (mpc' = "loop" /\ ~exit' /\ display' = "Some")]_vars

C23_Witness ==
    /\ init_log = <<"init_err">>
    /\ resumes = 2
    /\ drawn = 1
    /\ mpc = "loop"

\* C24: teardown joins the simulation thread.  When the drop of a Context
\* whose simulation thread was started has completed, that thread has
\* terminated.
C24_DropJoinsThread ==
    (mpc = "dropped" /\ "Acquired" \in {handle_log[k] : k \in 1..Len(handle_log)})
        => lpc = "terminated"

\* C25: in the simulation loop new_frame is called exactly once per iteration,
\* as its first step and so before every update of the iteration, and between
\* two new_frame calls update has run once for each true result of overstep:
\* the counts agree whenever the loop is not between a true result and the
\* update it leads to (counts are kept up to MaxTick).
C25_NewFrameOncePerIteration ==
    /\ lpc \in {"accum", "overstep", "tick", "end"} => hooks = 1
    /\ lpc \in {"none", "start", "new_frame"} => hooks = 0
    /\ lpc = "tick" => (trues = updates + 1 \/ updates = MaxTick)
    /\ lpc \in {"new_frame", "accum", "overstep", "end"} => trues = updates
    /\ lpc \in {"overstep", "tick"} => loop_iter = updates

C25_Witness ==
    /\ lpc = "end"
    /\ hooks = 1
    /\ updates = 2
    /\ trues = 2

\* C26: advance_section leaves an index that was at (section s, local l) at
\* (section (s + 1) mod SECTIONS, local 0); frame_front applies it to the head,
\* so after frame_front the head's section is the successor of its section
\* before and its local slot is 0.
C26_AdvanceSectionSuccessor ==
    [][FrameFront =>
          /\ section(head') = (section(head) + 1) % SECTIONS
          /\ extract(head')[2] = 0]_vars

\* C27: advance_local never changes the section field.  A push_front leaves the
\* head's section as it was, the slot it writes is in that section, and the
\* call does not crash, however many calls are made between two frame_front
\* calls.
C27_AdvanceLocalKeepsSection ==
    [][PushFrontAdvance =>
          /\ section(head') = section(head)
          /\ pslot'[2] = section(head)
          /\ ppc' # "panicked"]_vars

\* C28: advance_local returns the local slot the index held before the call,
\* paired with the current section, and stores that slot plus one modulo
\* SECTION_CAPACITY; the k-th push_front after a rotation gets slot k - 1.
C28_AdvanceLocalPreIncrement ==
    [][PushFrontAdvance =>
          /\ pslot' = <<extract(head)[2], section(head)>>
          /\ extract(head')[2] = (extract(head)[2] + 1) % SECTION_CAPACITY
          /\ pslot'[1] = inframe % SECTION_CAPACITY]_vars

\* C30: frame_back leaves the tail unchanged when the successor of the tail's
\* section is the head's section, and otherwise moves the tail to slot 0 of the
\* successor of its section; it never changes the head.
C30_FrameBackRule ==
    [][FrameBack =>
          /\ head' = head
          /\ LET next == (section(tail) + 1) % SECTIONS
             IN  IF next = section(head)
                 THEN tail' = tail
                 ELSE /\ section(tail') = next
                      /\ extract(tail')[2] = 0]_vars

\* A fold taken alone: packets are written to its two halves in any order and
\* the halves are read back.  Here packet records the packet last written to
\* each half, decoded what read_left and read_right then return, and kpc the
\* last call made.
FoldInit ==
    /\ packet = [left |-> None, right |-> None]
    /\ bits = Zero32
    /\ fold = FoldNew
    /\ decoded = <<None, None>>
    /\ kpc = "new"
    /\ MirrorUnused /\ InputUnused /\ AccumUnused /\ ContextUnused
    /\ KeysUnused

\* The packets written to the fold: both kinds, pressed and released, with the
\* smallest and the largest code and two codes between.
FoldPackets ==
    LET cs == {0, 1, 65, 2^CodeBits - 1}
    IN  {Keyboard(c, d) : c \in cs, d \in BOOLEAN}
            \cup {Mouse(c, d) : c \in cs, d \in BOOLEAN}

\* FoldBits::write_left(p)
WriteLeft ==
    /\ \E p \in FoldPackets :
         /\ fold' = write_left(fold, p)
         /\ packet' = [packet EXCEPT !.left = p]
    /\ kpc' = "write_left"
    /\ decoded' = <<read_left(fold'), read_right(fold')>>
    /\ UNCHANGED bits
    /\ UNCHANGED nonCodecVars

\* FoldBits::write_right(q)
WriteRight ==
    /\ \E q \in FoldPackets :
         /\ fold' = write_right(fold, q)
         /\ packet' = [packet EXCEPT !.right = q]
    /\ kpc' = "write_right"
    /\ decoded' = <<read_left(fold'), read_right(fold')>>
    /\ UNCHANGED bits
    /\ UNCHANGED nonCodecVars

FoldNext == WriteLeft \/ WriteRight

SpecFold == FoldInit /\ [][FoldNext]_vars

\* C29: a fold holds two independent packets.  read_left returns the packet
\* last given to write_left and read_right the packet last given to
\* write_right (None for a half never written), in whatever order the two
\* halves were written.
C29_FoldHalvesIndependent ==
    decoded = <<packet.left, packet.right>>

\* C31: contention errors leave the handle untouched.  The step in which
\* sync_noblock gives up with Err(Locked) or sync_timeout with
\* Err(TimeoutExceeded) changes neither the handle's local nor its version nor
\* the flag, which another handle holds; and from the start of such a call up
\* to that step nothing changes the handle's local or version either.
C31_ContentionErrorsLeaveHandle ==
    [][\A h \in Handles :
          /\ (pc[h] \in {"N_acq", "T_acq"} /\ pc'[h] \in {"N_ret", "T_ret"}) =>
                /\ ret'[h] \in {"Locked", "TimeoutExceeded"}
                /\ local'[h] = local[h] /\ version'[h] = version[h]
                /\ rw_signal /\ rw_signal'
                /\ \E g \in Handles : g # h /\ InCS(g) /\ InCS(g)'
          /\ ret'[h] \in {"Locked", "TimeoutExceeded"} =>
                pc[h] \in {"N_acq", "T_acq", "N_ret", "T_ret"}
          /\ (pc'[h] \in {"N_acq", "T_acq"}) =>
                local'[h] = local[h] /\ version'[h] = version[h]]_vars

\* C31 witness: a stale handle's sync_timeout has returned
\* Err(TimeoutExceeded) while another handle is inside a publish.
C31_Witness ==
    \E h, g \in Handles :
        /\ h # g
        /\ pc[h] = "T_ret" /\ ret[h] = "TimeoutExceeded"
        /\ version[h] < latest /\ local[h] # canonical
        /\ pc[g] = "P_w2" /\ rw_signal

\* C34: quiescent consistency with several publishers.  In every state where
\* no handle is inside a call, every handle whose check_sync_status() is true
\* holds in local the value that is in the canonical storage.
C34_QuiescentConsistency ==
    (\A h \in Handles : pc[h] = "idle") =>
        \A h \in Handles : CheckSyncStatus(h) => local[h] = canonical

SpecContextFair ==
    /\ ContextInit
    /\ [][ContextNext]_vars
    /\ WF_vars(LoopNext)

\* C40: simulation loop liveness.  Whatever step durations the state reports,
\* zero included, the inner loop `while overstep()` of every iteration ends,
\* and the thread goes on to the next iteration and its new_frame call.
C40_LoopLiveness ==
    /\ (lpc = "overstep") ~> (lpc = "end")
    /\ (lpc = "end") ~> (lpc = "accum" /\ hooks = 1)

\* C35: index bounds.  In every reachable state head and tail have a section
\* below SECTIONS and a local slot below the section capacity, and no
\* push_front, pop_back or drain step has indexed outside the arrays.
C35_IndexBounds ==
    /\ section(head) < SECTIONS /\ extract(head)[2] < SECTION_CAPACITY
    /\ section(tail) < SECTIONS /\ extract(tail)[2] < SECTION_CAPACITY
    /\ ppc # "panicked"
    /\ cpc # "panicked"

\* C36: at-most-once delivery.  Every push_front call pushes a different
\* packet, so no packet occurs twice among the packets handed to the consumer.
C36_AtMostOnce ==
    \A i, j \in 1..Len(got) : i # j => got[i] # got[j]


----------------------------------------------------------------------------
\* Part 5.  The key table, src/src/input/mod.rs.

KEYBOARD_ENTRIES == 512

MOUSE_ENTRIES == 24

RELEASE_SIGNAL == 65535

MAX_HOLD_FRAMES == 65535 - 1

OTHER_OFFSET == 5

\* Number of Keys::update calls followed.
MaxUpdate == 3

\* Number of Keys::press_change calls followed.
MaxPress == 3

\* u16::min
MinU16(a, b) == IF a < b THEN a ELSE b

\* From<winit::keyboard::KeyCode> for KeyboardKeyCode; v is the discriminant of
\* the KeyCode.
KeyboardKeyCodeFrom(v) == MinU16(v % 65536, KEYBOARD_ENTRIES - 1)

\* winit::event::MouseButton
Button(name) == [button |-> name, id |-> 0]

Other(id) == [button |-> "Other", id |-> id]

\* From<winit::event::MouseButton> for MouseButtonIndex.  id + OTHER_OFFSET is a
\* u16 sum: where it passes 0xFFFF a build with overflow checks panics before
\* any packet exists and a build without them wraps, which is the value here.
MouseButtonIndexFrom(v) ==
    IF v.button = "Left" THEN 0
    ELSE IF v.button = "Right" THEN 1
    ELSE IF v.button = "Middle" THEN 2
    ELSE IF v.button = "Back" THEN 4
    ELSE IF v.button = "Forward" THEN 3
    ELSE MinU16((v.id + OTHER_OFFSET) % 65536, MOUSE_ENTRIES - 1)

\* The key events followed: two keys, one of them past the end of the table,
\* and buttons on both sides of the end of the mouse table.
KeyCodeSample == {65, 600}

MouseButtonSample == {Button("Back"), Other(18), Other(65535)}

\* InputDispatcher::handle_key_event: the packets it pushes for the events
\* followed.
HandleKeyEvent ==
    {Keyboard(KeyboardKeyCodeFrom(c), d) : c \in KeyCodeSample, d \in BOOLEAN}
    \cup {Mouse(MouseButtonIndexFrom(b), d) : b \in MouseButtonSample,
                                              d \in BOOLEAN}

\* InputState::poll_key_events: the packets the drain decodes from the words
\* push_front stored for them.
Polled == {from_bits(as_bits(p)) : p \in HandleKeyEvent}

\* The entry a packet addresses in its table.
Entry(p) == <<p.kind, p.code>>

\* The counter of an entry.
Counter(e) == IF e[1] = "Keyboard" THEN keyboard[e[2]] ELSE mouse[e[2]]

Entries ==
    {<<"Keyboard", c>> : c \in 0..(KEYBOARD_ENTRIES - 1)}
    \cup {<<"Mouse", c>> : c \in 0..(MOUSE_ENTRIES - 1)}

\* Keys::new
KeysNew ==
    /\ keyboard = [c \in 0..(KEYBOARD_ENTRIES - 1) |-> 0]
    /\ mouse = [c \in 0..(MOUSE_ENTRIES - 1) |-> 0]

\* Counters a key has after it was pressed and held over that many updates.
HeldSample == {1, 2, MAX_HOLD_FRAMES - 1, MAX_HOLD_FRAMES}

\* The table when the run followed begins: new, or with one key that has been
\* held since it was pressed.
KeysInit ==
    /\ \/ KeysNew
       \/ \E c \in KeyCodeSample, n \in HeldSample :
             /\ keyboard = [i \in 0..(KEYBOARD_ENTRIES - 1) |->
                              IF i = KeyboardKeyCodeFrom(c) THEN n ELSE 0]
             /\ mouse = [i \in 0..(MOUSE_ENTRIES - 1) |-> 0]
       \/ \E b \in MouseButtonSample, n \in HeldSample :
             /\ keyboard = [i \in 0..(KEYBOARD_ENTRIES - 1) |-> 0]
             /\ mouse = [i \in 0..(MOUSE_ENTRIES - 1) |->
                           IF i = MouseButtonIndexFrom(b) THEN n ELSE 0]
    /\ kstatus = "running"
    /\ last_op = [op |-> "new", packet |-> None]
    /\ upped = {}
    /\ frames = 0
    /\ presses = 0
    /\ MirrorUnused /\ InputUnused /\ CodecUnused /\ AccumUnused
    /\ ContextUnused

\* One arm of the match in Keys::update.
UpdateState(state) ==
    IF state = RELEASE_SIGNAL THEN 0
    ELSE IF state >= 1 /\ state <= MAX_HOLD_FRAMES THEN (state + 1) % 65536
    ELSE state

\* Keys::update
KeysUpdate ==
    /\ kstatus = "running"
    /\ frames < MaxUpdate
    /\ keyboard' = [c \in DOMAIN keyboard |-> UpdateState(keyboard[c])]
    /\ mouse' = [c \in DOMAIN mouse |-> UpdateState(mouse[c])]
    /\ last_op' = [op |-> "update", packet |-> None]
    /\ upped' = {}
    /\ frames' = frames + 1
    /\ UNCHANGED <<kstatus, presses>>
    /\ UNCHANGED nonKeysVars

\* Mutant of press_change: a down packet restarts the counter of a key that is
\* already down.
PressStateRestarts(state, down) ==
    IF down THEN 1
    ELSE IF state > 0 /\ state # RELEASE_SIGNAL THEN RELEASE_SIGNAL
    ELSE state

\* The counter press_change leaves in the entry it addresses.
PressState(state, down) ==
    IF down THEN (IF state = 0 THEN 1 ELSE state)
    ELSE IF state > 0 /\ state # RELEASE_SIGNAL THEN RELEASE_SIGNAL
    ELSE state

\* Keys::press_change; indexing a table past its end panics.
PressChange(p) ==
    /\ kstatus = "running"
    /\ presses < MaxPress
    /\ IF p.kind = "Keyboard"
       THEN IF p.code < KEYBOARD_ENTRIES
            THEN /\ keyboard' = [keyboard EXCEPT
                                   ![p.code] = PressState(@, p.down)]
                 /\ UNCHANGED <<mouse, kstatus>>
            ELSE kstatus' = "panicked" /\ UNCHANGED <<keyboard, mouse>>
       ELSE IF p.code < MOUSE_ENTRIES
            THEN /\ mouse' = [mouse EXCEPT ![p.code] = PressState(@, p.down)]
                 /\ UNCHANGED <<keyboard, kstatus>>
            ELSE kstatus' = "panicked" /\ UNCHANGED <<keyboard, mouse>>
    /\ last_op' = [op |-> "press_change", packet |-> p]
    /\ upped' = IF p.down THEN upped ELSE upped \cup {Entry(p)}
    /\ presses' = presses + 1
    /\ UNCHANGED frames
    /\ UNCHANGED nonKeysVars

\* The consumer's frames: poll_key_events applies the packets drained, sync
\* calls update.
KeysNext ==
    \/ \E p \in Polled : PressChange(p)
    \/ KeysUpdate

SpecKeys == KeysInit /\ [][KeysNext]_vars


\* C33: the counter of every keyboard key and mouse button is a state machine.
\* A down packet on an idle entry (counter 0) sets it to 1; an update while the
\* entry is down adds one; an up packet on a down entry sets it to
\* RELEASE_SIGNAL and the next update sets it back to 0; a down packet on an
\* entry already down, and an up packet on an idle or released entry, leave the
\* counter as it was.
C33_KeyCounterMachine ==
    [][\A e \in Entries :
          LET old == Counter(e)
              new == Counter(e)'
              p == last_op'.packet
          IN  /\ (last_op'.op = "press_change" /\ Entry(p) = e) =>
                    /\ (p.down /\ old = 0) => new = 1
                    /\ (p.down /\ old \in 1..MAX_HOLD_FRAMES) => new = old
                    /\ (~p.down /\ old \in 1..MAX_HOLD_FRAMES)
                          => new = RELEASE_SIGNAL
                    /\ (~p.down /\ old \in {0, RELEASE_SIGNAL}) => new = old
              /\ last_op'.op = "update" =>
                    /\ old \in 1..MAX_HOLD_FRAMES => new = old + 1
                    /\ old = RELEASE_SIGNAL => new = 0]_vars

\* A key was pressed, held over an update and has just been given its up
\* packet: its counter is RELEASE_SIGNAL.
C33_Witness ==
    /\ last_op.op = "press_change"
    /\ ~last_op.packet.down
    /\ Counter(Entry(last_op.packet)) = RELEASE_SIGNAL
    /\ frames >= 1
    /\ presses >= 2

\* C39: no release is reported that was not sent.  In every reachable state an
\* entry's counter is RELEASE_SIGNAL only if an up packet for that entry was
\* applied since the last update; a key held with no up packet keeps a counter
\* in 1..MAX_HOLD_FRAMES over any number of updates.
C39_NoSpuriousRelease ==
    \A e \in Entries : Counter(e) = RELEASE_SIGNAL => e \in upped


====
